---- MODULE Spec2Model ----
(***************************************************************************)
(* A model of the r2v-to-plan2scene geometric reconstruction pipeline:     *)
(* the wall linkage graph (floorplan.py), face tracing (util.py) and the   *)
(* stages of House (house.py) as convert.run calls them.                   *)
(*                                                                         *)
(* Conventions.                                                            *)
(*  - A point is a pair <<x, y>> of integers (convert_int yields ints).    *)
(*  - A float taken from the configuration is a rational <<num, den>>      *)
(*    with den > 0; comparisons are cross-multiplied, so they are exact.   *)
(*  - Python objects with identity (Corner, Wall) are indices into the     *)
(*    arenas wall_graph.corners and wall_graph.walls; None is 0.           *)
(*  - A dict is a sequence of entries in insertion order.                  *)
(***************************************************************************)
EXTENDS Integers, Sequences, FiniteSets, TLC

VARIABLES
    pc,                   \* position of convert.run (or "api" for direct calls)
    conf,                 \* conf.parser_config
    walls,                \* House.walls: raw wall records <<x_min,y_min,x_max,y_max>>
    openings,             \* House.openings: raw door records
    raw_room_annotations, \* House.raw_room_annotations: raw annotation records
    wall_graph,           \* House.wall_graph
    room_description_map, \* House.room_description_map (dict, insertion order)
    rdr,                  \* House.rdr
    iter_count,           \* loop counter of the running stage
    error,                \* the exception that ended the run, or "none"
    stages,               \* history: the stages run so far, in order
    last_call,            \* history: arguments of the last add_wall call
    room                  \* history: result of the last find_room call

vars == <<pc, conf, walls, openings, raw_room_annotations, wall_graph,
          room_description_map, rdr, iter_count, error, stages, last_call, room>>

\* Python's None where a Corner, a Wall or a room is expected
None == 0

Abs(a) == IF a < 0 THEN -a ELSE a
Max2(a, b) == IF a < b THEN b ELSE a
Min2(a, b) == IF a < b THEN a ELSE b

\* r1 < r2 for rationals <<num, den>> with positive denominators
RatLess(r1, r2) == r1[1] * r2[2] < r2[1] * r1[2]
\* the integer n as a rational
Rat(n) == <<n, 1>>

RECURSIVE SumSeq(_)
SumSeq(s) == IF s = <<>> THEN 0 ELSE Head(s) + SumSeq(Tail(s))

Range(s) == {s[i] : i \in DOMAIN s}

\* the least element of a set of integers
Least(S) == CHOOSE w \in S : \A v \in S : w <= v

(***************************************************************************)
(* util.py: distances                                                      *)
(***************************************************************************)
\* util.manhattan_distance_between: max(|dx|, |dy|)
manhattan_distance_between_sum(a, b) == Abs(a[1] - b[1]) + Abs(a[2] - b[2])
manhattan_distance_between(a, b) == Max2(Abs(a[1] - b[1]), Abs(a[2] - b[2]))

\* the square of util.sq_distance (which returns the l2 distance itself)
SqDistance2(p, q) == (p[1] - q[1]) * (p[1] - q[1]) + (p[2] - q[2]) * (p[2] - q[2])

(***************************************************************************)
(* floorplan.py: Corner, Wall, WallLinkageGraph                            *)
(***************************************************************************)
\* Corner.__repr__: str(x) + "_" + str(y); an injective encoding of the pair
CornerRepr(pos) == <<"corner", pos[1], pos[2]>>

\* WallLinkageGraph.__init__
NewGraph(tolerance) ==
    [tolerance_distance |-> tolerance, corners |-> <<>>, wall_corners |-> <<>>,
     walls |-> <<>>]

\* d[k] = v on a dict: an existing key keeps its place, a new one goes last
DictSet(d, k, v) ==
    IF \E i \in DOMAIN d : d[i].key = k
    THEN [i \in DOMAIN d |-> IF d[i].key = k THEN [key |-> k, node |-> v] ELSE d[i]]
    ELSE Append(d, [key |-> k, node |-> v])

DictHas(d, k) == \E i \in DOMAIN d : d[i].key = k

\* del d[k]
DictDel(d, k) == SelectSeq(d, LAMBDA e : e.key # k)

\* n = Corner(p); wall_corners[str(p[0]) + "_" + str(p[1])] = n
NewCorner(g, p) ==
    [g EXCEPT !.corners = Append(@, [pos |-> p, adj |-> <<>>]),
              !.wall_corners = DictSet(@, CornerRepr(p), Len(g.corners) + 1)]

\* util.find_closest with exclude = []: the closest and the second closest
\* Corner of the index within cutoff_distance (stable sort by distance)
find_closest_first_only(target, g) ==
    LET cand == SelectSeq(g.wall_corners, LAMBDA e :
                    RatLess(Rat(manhattan_distance_between(g.corners[e.node].pos, target)),
                            g.tolerance_distance))
    IN  IF Len(cand) >= 1 THEN <<cand[1].node, None>> ELSE <<None, None>>
find_closest_no_cutoff(target, g) ==
    LET cand == g.wall_corners
        d(i) == manhattan_distance_between(g.corners[cand[i].node].pos, target)
        rank(i) == Cardinality({j \in DOMAIN cand :
                                   d(j) < d(i) \/ (d(j) = d(i) /\ j < i)})
        at(r) == cand[CHOOSE i \in DOMAIN cand : rank(i) = r].node
    IN  IF Len(cand) > 1 THEN <<at(0), at(1)>>
        ELSE IF Len(cand) = 1 THEN <<at(0), None>>
        ELSE <<None, None>>
find_closest(target, g) ==
    LET cand == SelectSeq(g.wall_corners, LAMBDA e :
                    RatLess(Rat(manhattan_distance_between(g.corners[e.node].pos, target)),
                            g.tolerance_distance))
        d(i) == manhattan_distance_between(g.corners[cand[i].node].pos, target)
        rank(i) == Cardinality({j \in DOMAIN cand :
                                   d(j) < d(i) \/ (d(j) = d(i) /\ j < i)})
        at(r) == cand[CHOOSE i \in DOMAIN cand : rank(i) = r].node
    IN  IF Len(cand) > 1 THEN <<at(0), at(1)>>
        ELSE IF Len(cand) = 1 THEN <<at(0), None>>
        ELSE <<None, None>>

\* "if n is None: n = Corner(p); wall_corners[...] = n": [g, n]
Attach(g, n, p) ==
    IF n = None THEN [g |-> NewCorner(g, p), n |-> Len(g.corners) + 1]
    ELSE [g |-> g, n |-> n]

\* add_wall lines 244-250: when both endpoints resolved to the same Corner, the
\* endpoint that is not the nearer one takes its second closest: <<n1, n2>>
TieBreakNone(g, n1, n1_backup, n2, n2_backup, p1, p2) == <<n1, n2>>
TieBreak(g, n1, n1_backup, n2, n2_backup, p1, p2) ==
    IF n1 # n2 THEN <<n1, n2>>
    ELSE IF manhattan_distance_between(g.corners[n1].pos, p1)
               < manhattan_distance_between(g.corners[n1].pos, p2)
    THEN <<n1, n2_backup>>
    ELSE <<n1_backup, n2>>

\* add_wall lines 234-259, statement by statement; the result is [g, n1, n2],
\* the graph with the Corners created and the two resolved Corners
\* lines 257-259
Resolve5(r1, n2, p2) ==
    [g |-> Attach(r1.g, n2, p2).g, n1 |-> r1.n, n2 |-> Attach(r1.g, n2, p2).n]
\* lines 253-255
Resolve4(g, n, p1, p2) == Resolve5(Attach(g, n[1], p1), n[2], p2)
\* lines 244-250
Resolve3(r1, c1, r2, c2, p1, p2) ==
    Resolve4(r2.g, TieBreak(r2.g, r1.n, c1[2], r2.n, c2[2], p1, p2), p1, p2)
\* lines 239-242
Resolve2(r1, c1, p1, p2) ==
    Resolve3(r1, c1, Attach(r1.g, find_closest(p2, r1.g)[1], p2),
             find_closest(p2, r1.g), p1, p2)
\* lines 234-237
ResolveEndpoints(g, p1, p2) ==
    Resolve2(Attach(g, find_closest(p1, g)[1], p1), find_closest(p1, g), p1, p2)

\* the assertion of add_wall (line 261)
AddWallAssertion(g, n1, n2) == g.corners[n1].pos # g.corners[n2].pos

\* Wall(n1, n2); a1, a2 record the endpoints the caller passed (history)
NewWall(n1, n2, p1, p2) ==
    [p1 |-> n1, p2 |-> n2, holes |-> <<>>, a1 |-> p1, a2 |-> p2]

\* WallLinkageGraph.add_wall: [g, raised]
add_wall(g, p1, p2) ==
    IF p1[1] = p2[1] /\ p1[2] = p2[2]
    THEN [g |-> g, raised |-> FALSE]
    ELSE LET r == ResolveEndpoints(g, p1, p2)
             w == Len(r.g.walls) + 1
         IN  IF ~AddWallAssertion(r.g, r.n1, r.n2)
             THEN [g |-> r.g, raised |-> TRUE]
             ELSE [g |-> [r.g EXCEPT
                            !.walls = Append(@, NewWall(r.n1, r.n2, p1, p2)),
                            !.corners = [i \in DOMAIN @ |->
                                IF i = r.n1 \/ i = r.n2
                                THEN [@[i] EXCEPT !.adj = Append(@, w)]
                                ELSE @[i]]],
                   raised |-> FALSE]

(***************************************************************************)
(* util.py: face tracing                                                   *)
(***************************************************************************)
\* the endpoint of wall w that is not Corner v (w.p1, or w.p2 when w.p1 is v)
OtherEnd(g, w, v) == IF g.walls[w].p1 = v THEN g.walls[w].p2 ELSE g.walls[w].p1

\* util.find_angle_between(p1, p2) for two non-zero vectors, normalised to
\* [0, 360) as _find_next_wall does. The angle (counter-clockwise, the y axis
\* pointing down) is represented by <<c, s>>, positive multiples of its cosine
\* and sine
find_angle_between(p1, p2) ==
    <<p1[1] * p2[1] + p1[2] * p2[2], p1[2] * p2[1] - p1[1] * p2[2]>>

\* 0 for an angle in [0, 180), 1 for an angle in [180, 360)
AngleHalf(a) == IF a[2] > 0 \/ (a[2] = 0 /\ a[1] > 0) THEN 0 ELSE 1

\* a < b for two angles in [0, 360)
AngleLess(a, b) ==
    \/ AngleHalf(a) < AngleHalf(b)
    \/ AngleHalf(a) = AngleHalf(b) /\ a[1] * b[2] - a[2] * b[1] > 0

\* util._find_next_wall
_find_next_wall_keep_incoming(g, vertex, in_wall) ==
    LET adj == g.corners[vertex].adj
        pos(n) == g.corners[n].pos
        vector(w) == <<pos(OtherEnd(g, w, vertex))[1] - pos(vertex)[1],
                       pos(OtherEnd(g, w, vertex))[2] - pos(vertex)[2]>>
        angle(w) == find_angle_between(vector(in_wall), vector(w))
        first == CHOOSE i \in DOMAIN adj :
                    \A j \in DOMAIN adj :
                        j # i => /\ ~AngleLess(angle(adj[j]), angle(adj[i]))
                                 /\ (j < i => AngleLess(angle(adj[i]), angle(adj[j])))
    IN  IF Len(adj) = 1 THEN None ELSE adj[first]
_find_next_wall(g, vertex, in_wall) ==
    LET adj == g.corners[vertex].adj
        pos(n) == g.corners[n].pos
        vector(w) == <<pos(OtherEnd(g, w, vertex))[1] - pos(vertex)[1],
                       pos(OtherEnd(g, w, vertex))[2] - pos(vertex)[2]>>
        angle(w) == find_angle_between(vector(in_wall), vector(w))
        walls_with_angles == SelectSeq(adj, LAMBDA w : w # in_wall)
        \* sorted(..., key=angle)[0]: the first of the least (the sort is stable)
        first == CHOOSE i \in DOMAIN walls_with_angles :
                    \A j \in DOMAIN walls_with_angles :
                        j # i => /\ ~AngleLess(angle(walls_with_angles[j]),
                                               angle(walls_with_angles[i]))
                                 /\ (j < i => AngleLess(angle(walls_with_angles[i]),
                                                        angle(walls_with_angles[j])))
    IN  IF Len(adj) = 1 THEN None ELSE walls_with_angles[first]

\* the step cap of find_room
FindRoomMaxIter == 500

\* the test that ends find_room's loop: the next wall is the first wall
CycleCompletedAtDeadEnd(next_wall, first_wall) == next_wall = None
CycleCompleted(next_wall, first_wall) == next_wall = first_wall

\* One pass of find_room's loop that does not return takes the pair
\* d = <<walls[-1], current_node>> to the next such pair (lines 80-94)
Advance(g, d, next_wall) ==
    IF next_wall = None THEN <<d[1], OtherEnd(g, d[1], d[2])>>
    ELSE <<next_wall, OtherEnd(g, next_wall, d[2])>>
NextPass(g, d) == Advance(g, d, _find_next_wall(g, d[2], d[1]))

\* the pairs of the first k passes after ds
RECURSIVE Passes(_, _, _)
Passes(g, ds, k) ==
    IF k = 0 THEN ds ELSE Passes(g, Append(ds, NextPass(g, ds[Len(ds)])), k - 1)

\* A pass depends on its pair alone and a graph of n walls has 2n pairs, so the
\* pairs of 2n passes hold a repetition ds[i] = ds[j], i < j, and every later
\* pass repeats the passes i..j-1 in turn. PassAt is the pair of pass k.
Repetition(ds) ==
    CHOOSE c \in (DOMAIN ds) \X (DOMAIN ds) : c[1] < c[2] /\ ds[c[1]] = ds[c[2]]
PassOfPeriod(ds, k, c) == ds[c[1] + ((k - c[1]) % (c[2] - c[1]))]
PassAt(ds, k) == IF k <= Len(ds) THEN ds[k] ELSE PassOfPeriod(ds, k, Repetition(ds))

\* the passes (counted from 1) at which the loop returns the cycle
ClosingPasses(g, ds) ==
    {n \in 1..Min2(Len(ds), FindRoomMaxIter) :
        CycleCompleted(_find_next_wall(g, ds[n][2], ds[n][1]), ds[1][1])}

\* util.find_room: [walls, closed], closed telling which return was taken; the
\* walls are those of the passes up to the first closing one, or of all
\* FindRoomMaxIter passes
FindRoomResultOneMore(ds, closing) ==
    IF closing # {}
    THEN [walls |-> [k \in 1..Least(closing) |-> ds[k][1]], closed |-> TRUE]
    ELSE [walls |-> [k \in 1..(FindRoomMaxIter + 2) |-> PassAt(ds, k)[1]],
          closed |-> FALSE]
FindRoomResult(ds, closing) ==
    IF closing # {}
    THEN [walls |-> [k \in 1..Least(closing) |-> ds[k][1]], closed |-> TRUE]
    ELSE [walls |-> [k \in 1..(FindRoomMaxIter + 1) |-> PassAt(ds, k)[1]],
          closed |-> FALSE]
FindRoomTrace(g, ds) == FindRoomResult(ds, ClosingPasses(g, ds))
find_room(g, start_node, start_wall) ==
    FindRoomTrace(g, Passes(g, << <<start_wall, start_node>> >>,
                            Min2(2 * Len(g.walls), FindRoomMaxIter)))

(***************************************************************************)
(* house.py: generate_wall_graph                                           *)
(***************************************************************************)
\* a raw wall or opening record of an annotation file; split tells the records
\* that split_source_walls made (they lack the dump fields of a loaded one);
\* a room type "None" stands for a record without that key
Record(a, b) ==
    [x_min |-> a[1], y_min |-> a[2], x_max |-> b[1], y_max |-> b[2], split |-> FALSE,
     left_room_type |-> "None", right_room_type |-> "None"]
\* a wall record of a raster-to-vector output file (load_r2v_output_file, lines
\* 96-104): it has the two room types and no dump fields
TypedRecord(a, b, left, right) ==
    [x_min |-> a[1], y_min |-> a[2], x_max |-> b[1], y_max |-> b[2], split |-> FALSE,
     left_room_type |-> left, right_room_type |-> right]

\* generate_wall_graph, lines 412-421: add_wall for every raw wall, in order
RECURSIVE AddWalls(_, _, _)
AddWallsFrom(r, ws, i) == IF r.raised THEN r ELSE AddWalls(r.g, ws, i + 1)
AddWalls(g, ws, i) ==
    IF i > Len(ws) THEN [g |-> g, raised |-> FALSE]
    ELSE AddWallsFrom(add_wall(g, <<ws[i].x_min, ws[i].y_min>>,
                               <<ws[i].x_max, ws[i].y_max>>), ws, i)

\* LineSegment.__repr__, the string that LineSegment.__hash__ hashes
WallRepr(g, w) ==
    <<"wall", g.corners[g.walls[w].p1].pos, g.corners[g.walls[w].p2].pos>>

\* frozenset(r): the walls of r, each stored under the hash it has at this
\* moment (a frozenset keeps the hash of a member and never recomputes it)
RoomKey(g, r) == {[wall |-> r[i], hash |-> WallRepr(g, r[i])] : i \in DOMAIN r}

\* room_description_map[room_key] = RoomDescription(room_key, r): an equal key
\* keeps its place in the dict and gets the new RoomDescription
RoomDescription(key, r) == [key |-> key, walls |-> r, annotations |-> <<>>]
RoomMapAppend(m, key, r) == Append(m, RoomDescription(key, r))
RoomMapSet(m, key, r) ==
    IF \E i \in DOMAIN m : m[i].key = key
    THEN [i \in DOMAIN m |-> IF m[i].key = key THEN RoomDescription(key, r)
                                               ELSE m[i]]
    ELSE Append(m, RoomDescription(key, r))

\* generate_wall_graph, lines 424-431: find_room from both ends of every wall
TraceInto(g, m, r) == RoomMapSet(m, RoomKey(g, r), r)
RECURSIVE DetectRooms(_, _, _)
DetectRooms(g, m, w) ==
    IF w > Len(g.walls) THEN m
    ELSE DetectRooms(g,
            TraceInto(g, TraceInto(g, m, find_room(g, g.walls[w].p1, w).walls),
                      find_room(g, g.walls[w].p2, w).walls),
            w + 1)

\* util.get_polyline: the Corners in the order the walls chain up
FirstLinked(g, points, unvisited) ==
    CHOOSE i \in DOMAIN unvisited :
        /\ points[Len(points)] \in {g.walls[unvisited[i]].p1, g.walls[unvisited[i]].p2}
        /\ \A j \in 1..(i - 1) :
              points[Len(points)]
                  \notin {g.walls[unvisited[j]].p1, g.walls[unvisited[j]].p2}
RemoveAt(s, i) == [k \in 1..(Len(s) - 1) |-> IF k < i THEN s[k] ELSE s[k + 1]]
RECURSIVE PolylineLoop(_, _, _)
PolylineStep(g, points, unvisited, i) ==
    PolylineLoop(g,
        Append(points, IF g.walls[unvisited[i]].p1 = points[Len(points)]
                       THEN g.walls[unvisited[i]].p2
                       ELSE g.walls[unvisited[i]].p1),
        RemoveAt(unvisited, i))
PolylineLoop(g, points, unvisited) ==
    IF \E i \in DOMAIN unvisited :
          points[Len(points)] \in {g.walls[unvisited[i]].p1, g.walls[unvisited[i]].p2}
    THEN PolylineStep(g, points, unvisited, FirstLinked(g, points, unvisited))
    ELSE points
PolylinePositions(g, points) == [i \in DOMAIN points |-> g.corners[points[i]].pos]
get_polyline(g, ws) ==
    PolylinePositions(g, PolylineLoop(g, <<g.walls[ws[1]].p1, g.walls[ws[1]].p2>>,
                                      Tail(ws)))

\* shapely Polygon(polyline): the ring is closed when its last point is not the
\* first; Polygon.area is half of PolygonArea2 (shoelace formula)
ClosedRing(pts) == IF pts[Len(pts)] = pts[1] THEN pts ELSE Append(pts, pts[1])
RECURSIVE Shoelace(_, _)
Shoelace(ring, i) ==
    IF i >= Len(ring) THEN 0
    ELSE ring[i][1] * ring[i + 1][2] - ring[i + 1][1] * ring[i][2]
         + Shoelace(ring, i + 1)
PolygonArea2(pts) == Abs(Shoelace(ClosedRing(pts), 1))

\* Polygon.intersection(...).area for two rectilinear polygons (every edge
\* parallel to an axis), doubled. The plane is cut into the cells of the grid
\* through all vertices; a cell centre (doubled: cx2, cy2) is inside a ring by
\* the even-odd rule on the ring's vertical edges
Coords(P, Q, k) == {P[i][k] : i \in DOMAIN P} \cup {Q[i][k] : i \in DOMAIN Q}
Intervals(X) == {c \in X \X X : c[1] < c[2] /\ \A x \in X : ~(c[1] < x /\ x < c[2])}
InsideRing(ring, cx2, cy2) ==
    Cardinality({i \in 1..(Len(ring) - 1) :
        /\ ring[i][1] = ring[i + 1][1]
        /\ 2 * ring[i][1] > cx2
        /\ 2 * Min2(ring[i][2], ring[i + 1][2]) < cy2
        /\ cy2 < 2 * Max2(ring[i][2], ring[i + 1][2])}) % 2 = 1
CommonCells(P, Q) ==
    {c \in Intervals(Coords(P, Q, 1)) \X Intervals(Coords(P, Q, 2)) :
        /\ InsideRing(ClosedRing(P), c[1][1] + c[1][2], c[2][1] + c[2][2])
        /\ InsideRing(ClosedRing(Q), c[1][1] + c[1][2], c[2][1] + c[2][2])}
RECURSIVE CellArea(_)
CellArea(S) ==
    IF S = {} THEN 0
    ELSE LET c == CHOOSE c \in S : TRUE
         IN  (c[1][2] - c[1][1]) * (c[2][2] - c[2][1]) + CellArea(S \ {c})
IntersectionArea2(P, Q) == 2 * CellArea(CommonCells(P, Q))

\* _eliminate_false_rooms, lines 381-396: the rooms whose polygon overlaps the
\* parent's with a positive area; each contributes its own area
ContainedChildren(g, m, parent) ==
    {child \in DOMAIN m :
        /\ child # parent
        /\ Len(get_polyline(g, m[child].walls)) >= 3
        /\ IntersectionArea2(get_polyline(g, m[parent].walls),
                             get_polyline(g, m[child].walls)) > 0}
RECURSIVE TotalIntersection2(_, _, _, _)
TotalIntersection2(g, m, parent, children) ==
    IF children = {} THEN 0
    ELSE LET c == CHOOSE c \in children : TRUE
         IN  IntersectionArea2(get_polyline(g, m[parent].walls),
                               get_polyline(g, m[c].walls))
             + TotalIntersection2(g, m, parent, children \ {c})
RECURSIVE TotalArea2(_, _, _, _)
TotalArea2(g, m, parent, children) ==
    IF children = {} THEN 0
    ELSE LET c == CHOOSE c \in children : TRUE
         IN  PolygonArea2(get_polyline(g, m[c].walls))
             + TotalArea2(g, m, parent, children \ {c})

\* lines 398-400: abs(total_area - parent.area) < parent.area * threshold
AreaTest(total2, parent2, threshold) ==
    Abs(total2 - parent2) * threshold[2] < parent2 * threshold[1]
FullyContained(g, m, parent, threshold) ==
    /\ Len(get_polyline(g, m[parent].walls)) >= 3
    /\ AreaTest(TotalArea2(g, m, parent, ContainedChildren(g, m, parent)),
                PolygonArea2(get_polyline(g, m[parent].walls)), threshold)

\* lines 402-403: del room_description_map[fck] for every fully contained key
RECURSIVE KeepRooms(_, _, _, _)
KeepRooms(g, m, threshold, i) ==
    IF i > Len(m) THEN <<>>
    ELSE IF FullyContained(g, m, i, threshold) THEN KeepRooms(g, m, threshold, i + 1)
    ELSE <<m[i]>> \o KeepRooms(g, m, threshold, i + 1)
_eliminate_false_rooms(g, m, threshold) == KeepRooms(g, m, threshold, 1)

\* util.line_contains_check(parent, child, pd_margin): [contains, pd]. A
\* perpendicular distance is kept as the rational <<n, d>> of its square
PdSquared(g, w, q) ==
    IF Abs(g.corners[g.walls[w].p2].pos[1] - g.corners[g.walls[w].p1].pos[1]) > 0
    THEN <<((g.corners[g.walls[w].p2].pos[1] - g.corners[g.walls[w].p1].pos[1])
               * (q[2] - g.corners[g.walls[w].p1].pos[2])
            - (g.corners[g.walls[w].p2].pos[2] - g.corners[g.walls[w].p1].pos[2])
               * (q[1] - g.corners[g.walls[w].p1].pos[1])) ^ 2,
           SqDistance2(g.corners[g.walls[w].p1].pos, g.corners[g.walls[w].p2].pos)>>
    ELSE <<(q[1] - g.corners[g.walls[w].p1].pos[1]) ^ 2, 1>>
\* pd > pd_margin, pd_margin a rational that is not negative
PdExceeds(pd, pd_margin) == pd[1] * pd_margin[2] ^ 2 > pd_margin[1] ^ 2 * pd[2]
PdLess(a, b) == a[1] * b[2] < b[1] * a[2]
PdMin(a, b) == IF PdLess(b, a) THEN b ELSE a
EndsMatch(p1, p2, c1, c2) ==
    \/ /\ SqDistance2(p1, c1) < SqDistance2(p1, c2)
       /\ SqDistance2(p2, c2) < SqDistance2(p2, c1)
    \/ /\ SqDistance2(p1, c2) < SqDistance2(p1, c1)
       /\ SqDistance2(p2, c1) < SqDistance2(p2, c2)
line_contains_check(g, w, door, pd_margin) ==
    IF \/ PdExceeds(PdSquared(g, w, <<door.x_min, door.y_min>>), pd_margin)
       \/ PdExceeds(PdSquared(g, w, <<door.x_max, door.y_max>>), pd_margin)
       \/ ~EndsMatch(g.corners[g.walls[w].p1].pos, g.corners[g.walls[w].p2].pos,
                     <<door.x_min, door.y_min>>, <<door.x_max, door.y_max>>)
    THEN [contains |-> FALSE, pd |-> <<0, 1>>]
    ELSE [contains |-> TRUE,
          pd |-> PdMin(PdSquared(g, w, <<door.x_min, door.y_min>>),
                       PdSquared(g, w, <<door.x_max, door.y_max>>))]

\* generate_wall_graph, lines 441-448: the (pd, door, wall) triples, doors in
\* the outer loop, then sorted by pd (the sort is stable); a pair is <<door, wall>>
AllPairs(nd, nw) ==
    [k \in 1..(nd * nw) |-> <<((k - 1) \div nw) + 1, ((k - 1) % nw) + 1>>]
wall_door_pairs(g, doors, pd_margin) ==
    SelectSeq(AllPairs(Len(doors), Len(g.walls)),
              LAMBDA pr : line_contains_check(g, pr[2], doors[pr[1]], pd_margin).contains)
PairRank(g, doors, pd_margin, pairs, i) ==
    Cardinality({j \in DOMAIN pairs :
        \/ PdLess(line_contains_check(g, pairs[j][2], doors[pairs[j][1]], pd_margin).pd,
                  line_contains_check(g, pairs[i][2], doors[pairs[i][1]], pd_margin).pd)
        \/ /\ ~PdLess(line_contains_check(g, pairs[i][2], doors[pairs[i][1]], pd_margin).pd,
                      line_contains_check(g, pairs[j][2], doors[pairs[j][1]], pd_margin).pd)
           /\ j < i})
\* line 448 left out: the pairs in the order of the two loops
PairsUnsorted(g, doors, pd_margin, pairs) == pairs
SortedPairs(g, doors, pd_margin, pairs) ==
    [r \in DOMAIN pairs |->
        pairs[CHOOSE i \in DOMAIN pairs : PairRank(g, doors, pd_margin, pairs, i) = r - 1]]

\* util.get_closest_and_furthest(target, p1, p2)
get_closest_and_furthest(target, p1, p2) ==
    IF SqDistance2(target, p1) < SqDistance2(target, p2) THEN <<p1, p2>> ELSE <<p2, p1>>

\* Hole(min_x, max_x) in wall space, lines 457-458; its type starts as None.
\* door is history: the opening record the Hole was made from
NewHole(wall_p1, ends, door) ==
    [min_x |-> manhattan_distance_between(wall_p1, ends[1]),
     max_x |-> manhattan_distance_between(wall_p1, ends[2]),
     type |-> "None",
     door |-> door]
AppendHole(g, w, door) ==
    [g EXCEPT !.walls[w].holes =
        Append(@, NewHole(g.corners[g.walls[w].p1].pos,
                          get_closest_and_furthest(g.corners[g.walls[w].p1].pos,
                                                   <<door.x_min, door.y_min>>,
                                                   <<door.x_max, door.y_max>>),
                          door))]

\* lines 450-457: every door goes to the first wall of the sorted list that
\* pairs with it
RECURSIVE AddDoors(_, _, _, _, _)
AddDoors(g, doors, sorted, k, added_doors) ==
    IF k > Len(sorted) THEN g
    ELSE IF sorted[k][1] \in added_doors
    THEN AddDoors(g, doors, sorted, k + 1, added_doors)
    ELSE AddDoors(AppendHole(g, sorted[k][2], doors[sorted[k][1]]), doors, sorted,
                  k + 1, added_doors \cup {sorted[k][1]})
add_doors(g, doors, pd_margin) ==
    AddDoors(g, doors,
             SortedPairs(g, doors, pd_margin, wall_door_pairs(g, doors, pd_margin)),
             1, {})

(***************************************************************************)
(* wall_split_utils.py and house.py: split_source_walls                    *)
(***************************************************************************)
\* the gap that find_connections passes on, whatever gap it was given
SplitGap == 5

pointDistance(point_1, point_2) ==
    Max2(Abs(point_1[1] - point_2[1]), Abs(point_1[2] - point_2[2]))

\* calcLineDirection: 0 for a line along x, 1 for a line along y
calcLineDirection(line) ==
    IF Abs(line[1][1] - line[2][1]) < Abs(line[1][2] - line[2][2]) THEN 1 ELSE 0

\* lineRange: <<direction, fixedValue, minValue, maxValue>>
lineRange(line) ==
    <<calcLineDirection(line),
      (line[1][2 - calcLineDirection(line)] + line[2][2 - calcLineDirection(line)]) \div 2,
      Min2(line[1][1 + calcLineDirection(line)], line[2][1 + calcLineDirection(line)]),
      Max2(line[1][1 + calcLineDirection(line)], line[2][1 + calcLineDirection(line)])>>

\* _findConnections after the endpoint loop found nothing: r1, r2 are the
\* lineRange of line_1 and of line_2
CrossConnection(r1, r2, gap) ==
    IF r1[1] = r2[1] THEN [r |-> <<-1, -1>>, p |-> <<0, 0>>]
    ELSE IF \/ Min2(r1[2], r2[4]) < Max2(r1[2], r2[3]) - gap
            \/ Min2(r2[2], r1[4]) < Max2(r2[2], r1[3]) - gap
    THEN [r |-> <<-1, -1>>, p |-> <<0, 0>>]
    ELSE IF Abs(r1[3] - r2[2]) <= gap THEN [r |-> <<0, 2>>, p |-> <<r2[2], r1[2]>>]
    ELSE IF Abs(r1[4] - r2[2]) <= gap THEN [r |-> <<1, 2>>, p |-> <<r2[2], r1[2]>>]
    ELSE IF Abs(r2[3] - r1[2]) <= gap THEN [r |-> <<2, 0>>, p |-> <<r2[2], r1[2]>>]
    ELSE IF Abs(r2[4] - r1[2]) <= gap THEN [r |-> <<2, 1>>, p |-> <<r2[2], r1[2]>>]
    ELSE [r |-> <<2, 2>>, p |-> <<r2[2], r1[2]>>]

\* the endpoint loop of _findConnections: the first pair <<c_1, c_2>> of ends
\* not farther apart than gap
EndPairs == << <<1, 1>>, <<1, 2>>, <<2, 1>>, <<2, 2>> >>
ConnectedEnds(line_1, line_2, gap) ==
    SelectSeq(EndPairs, LAMBDA c : pointDistance(line_1[c[1]], line_2[c[2]]) <= gap)
EndConnection(line_1, line_2, c) ==
    [r |-> <<c[1] - 1, c[2] - 1>>,
     p |-> <<(line_1[c[1]][1] + line_2[c[2]][1]) \div 2,
             (line_1[c[1]][2] + line_2[c[2]][2]) \div 2>>]
_findConnections(line_1, line_2, gap) ==
    IF ConnectedEnds(line_1, line_2, gap) # <<>>
    THEN EndConnection(line_1, line_2, ConnectedEnds(line_1, line_2, gap)[1])
    ELSE CrossConnection(lineRange(line_1), lineRange(line_2), gap)

Swapped(c) == [r |-> <<c.r[2], c.r[1]>>, p |-> c.p]
find_connections(l1, l2, gap) ==
    IF l1[1][1] = l1[2][1] THEN Swapped(_findConnections(l2, l1, SplitGap))
    ELSE _findConnections(l1, l2, SplitGap)

\* split_source_walls: "only apply for manhattan walls"
IsManhattan(wall) == wall.x_min = wall.x_max \/ wall.y_min = wall.y_max
RecordLine(wall) == << <<wall.x_min, wall.y_min>>, <<wall.x_max, wall.y_max>> >>
Connection(ws, i1, i2, gap) == find_connections(RecordLine(ws[i1]), RecordLine(ws[i2]), gap)

\* "wall1 == wall2" on the two dicts: the records of an output file have the
\* same keys whether loaded or made by a split
DictEqual(wall1, wall2) ==
    IF wall1.left_room_type # "None"
    THEN [wall1 EXCEPT !.split = FALSE] = [wall2 EXCEPT !.split = FALSE]
    ELSE wall1 = wall2
\* the pairs <<i1, i2>> of one scan at which a wall is broken
Breaks(ws, gap) ==
    {c \in (DOMAIN ws) \X (DOMAIN ws) :
        /\ IsManhattan(ws[c[1]])
        /\ IsManhattan(ws[c[2]])
        /\ ~DictEqual(ws[c[1]], ws[c[2]])
        /\ 2 \in {Connection(ws, c[1], c[2], gap).r[1], Connection(ws, c[1], c[2], gap).r[2]}}
\* the first of them in the order of the two nested loops
FirstBreak(ws, gap) ==
    CHOOSE c \in Breaks(ws, gap) :
        \A d \in Breaks(ws, gap) : c[1] < d[1] \/ (c[1] = d[1] /\ c[2] <= d[2])
\* lines 178-187: the wall to break
ToBreak(ws, c, gap) == IF Connection(ws, c[1], c[2], gap).r[1] = 2 THEN c[1] ELSE c[2]
\* lines 189-226: del walls[to_break_i]; walls.append(seg1); walls.append(seg2)
Segments(wall, p) ==
    << [x_min |-> wall.x_min, y_min |-> wall.y_min, x_max |-> p[1], y_max |-> p[2],
        split |-> TRUE, left_room_type |-> wall.left_room_type,
        right_room_type |-> wall.right_room_type],
       [x_min |-> p[1], y_min |-> p[2], x_max |-> wall.x_max, y_max |-> wall.y_max,
        split |-> TRUE, left_room_type |-> wall.left_room_type,
        right_room_type |-> wall.right_room_type] >>
BreakWall(ws, i, p) == RemoveAt(ws, i) \o Segments(ws[i], p)

\* lines 149-228 without another scan after a split
SplitLoopOneScan(ws, left_iterations, gap) ==
    IF left_iterations <= 0 \/ Breaks(ws, gap) = {} THEN ws
    ELSE BreakWall(ws, ToBreak(ws, FirstBreak(ws, gap), gap),
                   Connection(ws, FirstBreak(ws, gap)[1], FirstBreak(ws, gap)[2], gap).p)
\* lines 149-228 without the count of the iterations left
RECURSIVE SplitLoopUnbounded(_, _, _)
SplitLoopUnbounded(ws, left_iterations, gap) ==
    IF Breaks(ws, gap) = {} THEN ws
    ELSE SplitLoopUnbounded(
            BreakWall(ws, ToBreak(ws, FirstBreak(ws, gap), gap),
                      Connection(ws, FirstBreak(ws, gap)[1], FirstBreak(ws, gap)[2], gap).p),
            left_iterations - 1, gap)

\* lines 149-228: one split per pass, while a pass changed something and
\* iterations are left
RECURSIVE SplitLoop(_, _, _)
SplitPass(ws, c, left_iterations, gap) ==
    SplitLoop(BreakWall(ws, ToBreak(ws, c, gap), Connection(ws, c[1], c[2], gap).p),
              left_iterations - 1, gap)
SplitLoop(ws, left_iterations, gap) ==
    IF left_iterations <= 0 \/ Breaks(ws, gap) = {} THEN ws
    ELSE SplitPass(ws, FirstBreak(ws, gap), left_iterations, gap)
split_source_walls(ws, max_iter, gap) == SplitLoop(ws, max_iter, gap)

(***************************************************************************)
(* house.py: straighten_walls                                              *)
(***************************************************************************)
\* sq_distance(p1, p2) = 0: the slope test divides by it
ZeroLength(g, w) == g.corners[g.walls[w].p1].pos = g.corners[g.walls[w].p2].pos

\* 0 < abs(p1.pos[k] - p2.pos[k]) / sq_distance(p1.pos, p2.pos) < cutoff, on a
\* wall of positive length; k = 1 is the x test, k = 2 the y test
Inclined(g, w, k, cutoff) ==
    /\ g.corners[g.walls[w].p1].pos[k] # g.corners[g.walls[w].p2].pos[k]
    /\ cutoff[1] > 0
    /\ (g.corners[g.walls[w].p1].pos[k] - g.corners[g.walls[w].p2].pos[k]) ^ 2
           * cutoff[2] ^ 2
         < cutoff[1] ^ 2
           * SqDistance2(g.corners[g.walls[w].p1].pos, g.corners[g.walls[w].p2].pos)

\* lines 318-327: the walls at which the scan stops, by a break or by the
\* ZeroDivisionError of the slope test
ScanStopsXOnly(g, cutoff) ==
    {w \in DOMAIN g.walls : ZeroLength(g, w) \/ Inclined(g, w, 1, cutoff)}
ScanStops(g, cutoff) ==
    {w \in DOMAIN g.walls :
        ZeroLength(g, w) \/ Inclined(g, w, 1, cutoff) \/ Inclined(g, w, 2, cutoff)}

\* lines 357-358 with a deletion that tolerates a missing key
RekeyIgnoresMissing(g, n, moved_point_key, pos) ==
    [g |-> [g EXCEPT !.corners[n].pos = pos,
                     !.wall_corners = DictSet(DictDel(@, moved_point_key),
                                               CornerRepr(pos), n)],
     raised |-> FALSE]
\* lines 357-358: del wall_corners[moved_point_key]; wall_corners[str(p)] = p,
\* after the Corner n has got its new position
Rekey(g, n, moved_point_key, pos) ==
    IF ~DictHas(g.wall_corners, moved_point_key)
    THEN [g |-> [g EXCEPT !.corners[n].pos = pos], raised |-> TRUE]
    ELSE [g |-> [g EXCEPT !.corners[n].pos = pos,
                          !.wall_corners = DictSet(DictDel(@, moved_point_key),
                                                    CornerRepr(pos), n)],
          raised |-> FALSE]
MoveCorner(g, n, pos) == Rekey(g, n, CornerRepr(g.corners[n].pos), pos)

\* lines 332-355 moving the other endpoint
CorrectOtherEnd(g, p1, p2, x_correction) ==
    IF x_correction
    THEN IF g.corners[p1].pos[2] < g.corners[p2].pos[2]
         THEN MoveCorner(g, p2, <<g.corners[p1].pos[1], g.corners[p2].pos[2]>>)
         ELSE MoveCorner(g, p1, <<g.corners[p2].pos[1], g.corners[p1].pos[2]>>)
    ELSE IF g.corners[p1].pos[1] < g.corners[p2].pos[1]
         THEN MoveCorner(g, p2, <<g.corners[p2].pos[1], g.corners[p1].pos[2]>>)
         ELSE MoveCorner(g, p1, <<g.corners[p1].pos[1], g.corners[p2].pos[2]>>)
\* lines 332-355: the correction of found_wall
Correct(g, p1, p2, x_correction) ==
    IF x_correction
    THEN IF g.corners[p1].pos[2] < g.corners[p2].pos[2]
         THEN MoveCorner(g, p1, <<g.corners[p2].pos[1], g.corners[p1].pos[2]>>)
         ELSE MoveCorner(g, p2, <<g.corners[p1].pos[1], g.corners[p2].pos[2]>>)
    ELSE IF g.corners[p1].pos[1] < g.corners[p2].pos[1]
         THEN MoveCorner(g, p1, <<g.corners[p1].pos[1], g.corners[p2].pos[2]>>)
         ELSE MoveCorner(g, p2, <<g.corners[p2].pos[1], g.corners[p1].pos[2]>>)

\* one pass of the while loop that found a wall: [g, raised]
StraightenWall(g, w, cutoff) ==
    IF ZeroLength(g, w) THEN [g |-> g, raised |-> TRUE]
    ELSE Correct(g, g.walls[w].p1, g.walls[w].p2, Inclined(g, w, 1, cutoff))

(***************************************************************************)
(* util.py: hole_to_line                                                   *)
(***************************************************************************)
\* math.sqrt(n) for n the square of an integer: the walls that carry the
\* holes converted here are parallel to an axis or have integer length
IsSquare(n) == \E k \in 0..n : k * k = n
Sqrt(n) == CHOOSE k \in 0..n : k * k = n

\* (wall_p2 - wall_p1) / distance * x + wall_p1 as the point
\* (P[1] / P[3], P[2] / P[3])
PointOnWall(wall_p1, wall_p2, distance, x) ==
    <<(wall_p2[1] - wall_p1[1]) * x + wall_p1[1] * distance,
      (wall_p2[2] - wall_p1[2]) * x + wall_p1[2] * distance,
      distance>>
hole_to_line(wall_p1, wall_p2, hole_start, hole_end) ==
    <<PointOnWall(wall_p1, wall_p2, Sqrt(SqDistance2(wall_p1, wall_p2)), hole_start),
      PointOnWall(wall_p1, wall_p2, Sqrt(SqDistance2(wall_p1, wall_p2)), hole_end)>>

\* util.rect_line_distance, squared, as a rational: the least distance from a
\* corner of the rectangle to an end of the line
RectCorners(rect_p1, rect_p2) ==
    {<<rect_p1[1], rect_p1[2]>>, <<rect_p2[1], rect_p1[2]>>,
     <<rect_p2[1], rect_p2[2]>>, <<rect_p1[1], rect_p2[2]>>}
SqDistanceTo(c, P) ==
    <<(c[1] * P[3] - P[1]) ^ 2 + (c[2] * P[3] - P[2]) ^ 2, P[3] ^ 2>>
RatLeast(S) == CHOOSE r \in S : \A q \in S : ~RatLess(q, r)
rect_line_distance(rect_p1, rect_p2, line_p1, line_p2) ==
    RatLeast({SqDistanceTo(c, P) :
                c \in RectCorners(rect_p1, rect_p2), P \in {line_p1, line_p2}})

(***************************************************************************)
(* house.py: populate_room_annotations                                     *)
(***************************************************************************)
\* lines 517-521: AABBAnnotation of a raw annotation record
AABBAnnotation(ro) ==
    [type |-> ro.category, p1 |-> <<ro.x_min, ro.y_min>>, p2 |-> <<ro.x_max, ro.y_max>>]
\* lines 526-528
AnnotationPolygon(a) ==
    << <<a.p1[1], a.p1[2]>>, <<a.p2[1], a.p1[2]>>, <<a.p2[1], a.p2[2]>>,
       <<a.p1[1], a.p2[2]>> >>
\* lines 529-531, for a room and an annotation with sides parallel to the axes
OverlapTest(intersection2, annotation2, overlap) ==
    /\ intersection2 > 0
    /\ Abs(intersection2 - annotation2) * overlap[2] < annotation2 * overlap[1]
AnnotationAssigned(room_poly, a, overlap) ==
    OverlapTest(IntersectionArea2(room_poly, AnnotationPolygon(a)),
                PolygonArea2(AnnotationPolygon(a)), overlap)
\* line 524: shapely's Polygon raises ValueError for fewer than 3 points.
\* get_polyline starts with the two Corners of the first wall and gives a third
\* point exactly when another wall of the list touches walls[0].p2
PolygonRaises(g, ws) ==
    ~\E i \in 2..Len(ws) :
        g.walls[ws[1]].p2 \in {g.walls[ws[i]].p1, g.walls[ws[i]].p2}
RoomAnnotated(g, rd, annotations, overlap) ==
    [rd EXCEPT !.annotations =
        @ \o SelectSeq(annotations,
                       LAMBDA a : AnnotationAssigned(get_polyline(g, rd.walls), a, overlap))]
\* populate_room_annotations: [m, raised]
populate_room_annotations(g, m, raw, overlap) ==
    IF \E i \in DOMAIN m : PolygonRaises(g, m[i].walls)
    THEN [m |-> m, raised |-> TRUE]
    ELSE [m |-> [i \in DOMAIN m |->
                    RoomAnnotated(g, m[i], [k \in DOMAIN raw |-> AABBAnnotation(raw[k])],
                                  overlap)],
          raised |-> FALSE]

(***************************************************************************)
(* house.py: classify_doors_and_windows, compute_rdr                       *)
(***************************************************************************)
\* "wall in list(room_key)": the list is searched by identity
InKeyList(key, w) == \E e \in key : e.wall = w
\* "wall in room_key": the frozenset is searched by the wall's present hash
InKey(g, key, w) == [wall |-> w, hash |-> WallRepr(g, w)] \in key

Indices(m) == [i \in DOMAIN m |-> i]
\* lines 268-271: the rooms of a wall as classify_doors_and_windows finds them
AdjacentRoomsByList(m, w) == SelectSeq(Indices(m), LAMBDA i : InKeyList(m[i].key, w))
\* _find_adjacent_rooms: the rooms (their places in the map) of a wall
_find_adjacent_rooms(g, m, w) == SelectSeq(Indices(m), LAMBDA i : InKey(g, m[i].key, w))

SetHoleTypes(holes, from, to) ==
    [h \in DOMAIN holes |-> IF holes[h].type \in from
                            THEN [holes[h] EXCEPT !.type = to] ELSE holes[h]]

\* lines 265-277 with the rooms of a wall looked up in the frozensets, as
\* _find_adjacent_rooms does, instead of in list(room_key)
RECURSIVE ClassifyInternalByHash(_, _, _)
ClassifyInternalByHash(g, m, w) ==
    IF w > Len(g.walls) THEN [g |-> g, raised |-> FALSE]
    ELSE IF Len(_find_adjacent_rooms(g, m, w)) > 2 THEN [g |-> g, raised |-> TRUE]
    ELSE IF Len(_find_adjacent_rooms(g, m, w)) = 2
    THEN ClassifyInternalByHash(
            [g EXCEPT !.walls[w].holes = SetHoleTypes(@, {"None", "door", "window"}, "door")],
            m, w + 1)
    ELSE ClassifyInternalByHash(g, m, w + 1)

\* classify_doors_and_windows, lines 265-277: [g, raised]
RECURSIVE ClassifyInternal(_, _, _)
ClassifyInternal(g, m, w) ==
    IF w > Len(g.walls) THEN [g |-> g, raised |-> FALSE]
    ELSE IF Len(AdjacentRoomsByList(m, w)) > 2 THEN [g |-> g, raised |-> TRUE]
    ELSE IF Len(AdjacentRoomsByList(m, w)) = 2
    THEN ClassifyInternal(
            [g EXCEPT !.walls[w].holes = SetHoleTypes(@, {"None", "door", "window"}, "door")],
            m, w + 1)
    ELSE ClassifyInternal(g, m, w + 1)

\* lines 287-289: the holes of a room's walls, in the order of the two loops,
\* each as <<wall, place in wall.holes>>
RECURSIVE RoomHoles(_, _, _)
RoomHoles(g, ws, k) ==
    IF k > Len(ws) THEN <<>>
    ELSE [h \in DOMAIN g.walls[ws[k]].holes |-> <<ws[k], h>>] \o RoomHoles(g, ws, k + 1)
Unresolved(g, slots) ==
    SelectSeq(slots, LAMBDA s : g.walls[s[1]].holes[s[2]].type = "None")
\* lines 290-291
HoleRectDist(g, annotation, s, hole_line) ==
    rect_line_distance(annotation.p1, annotation.p2, hole_line[1], hole_line[2])
HoleDist(g, annotation, s) ==
    HoleRectDist(g, annotation, s,
                 hole_to_line(g.corners[g.walls[s[1]].p1].pos,
                              g.corners[g.walls[s[1]].p2].pos,
                              g.walls[s[1]].holes[s[2]].min_x,
                              g.walls[s[1]].holes[s[2]].max_x))
\* lines 292-294: the first hole at the least distance
ClosestHole(g, annotation, cand) ==
    cand[CHOOSE i \in DOMAIN cand :
            \A j \in DOMAIN cand :
                /\ ~RatLess(HoleDist(g, annotation, cand[j]), HoleDist(g, annotation, cand[i]))
                /\ j < i => RatLess(HoleDist(g, annotation, cand[i]),
                                    HoleDist(g, annotation, cand[j]))]
MarkDoor(g, s) == [g EXCEPT !.walls[s[1]].holes[s[2]].type = "door"]
\* lines 283-298: the unresolved hole of the room closest to an entrance
\* annotation is a door
EntranceDoor(g, rd, annotation, cand) ==
    IF annotation.type = "entrance" /\ cand # <<>>
    THEN MarkDoor(g, ClosestHole(g, annotation, cand))
    ELSE g
RECURSIVE ClassifyEntrances(_, _, _, _)
ClassifyEntrances(g, m, i, j) ==
    IF i > Len(m) THEN g
    ELSE IF j > Len(m[i].annotations) THEN ClassifyEntrances(g, m, i + 1, 1)
    ELSE ClassifyEntrances(
            EntranceDoor(g, m[i], m[i].annotations[j],
                         Unresolved(g, RoomHoles(g, m[i].walls, 1))),
            m, i, j + 1)
ClassifyEntrancesFrom(r, m) ==
    IF r.raised THEN r ELSE [g |-> ClassifyEntrances(r.g, m, 1, 1), raised |-> FALSE]

\* lines 301-305 with the inner loop left after the first hole of a wall
ClassifyRemainingFirstHole(r) ==
    IF r.raised THEN r
    ELSE [g |-> [r.g EXCEPT !.walls = [w \in DOMAIN @ |->
                    [@[w] EXCEPT !.holes = [h \in DOMAIN @ |->
                        IF h = 1 THEN SetHoleTypes(@, {"None"}, "window")[h] ELSE @[h]]]]],
          raised |-> FALSE]

\* lines 301-305: any remaining holes are windows
ClassifyRemaining(r) ==
    IF r.raised THEN r
    ELSE [g |-> [r.g EXCEPT !.walls = [w \in DOMAIN @ |->
                    [@[w] EXCEPT !.holes = SetHoleTypes(@, {"None"}, "window")]]],
          raised |-> FALSE]

\* House.classify_doors_and_windows: [g, raised]
classify_doors_and_windows(g, m) ==
    ClassifyRemaining(ClassifyEntrancesFrom(ClassifyInternal(g, m, 1), m))

\* compute_rdr, lines 253-259: the edges of one door
DoorEdges(adjacent_rooms_keys, hole) ==
    IF Len(adjacent_rooms_keys) = 1
    THEN << [a |-> adjacent_rooms_keys[1], hole |-> hole, b |-> None] >>
    ELSE IF Len(adjacent_rooms_keys) = 2
    THEN << [a |-> adjacent_rooms_keys[1], hole |-> hole, b |-> adjacent_rooms_keys[2]],
            [a |-> adjacent_rooms_keys[2], hole |-> hole, b |-> adjacent_rooms_keys[1]] >>
    ELSE <<>>

\* compute_rdr: a hole is <<wall, place in wall.holes>>
RECURSIVE RdrLoop(_, _, _, _, _)
RdrLoop(g, m, w, h, edges) ==
    IF w > Len(g.walls) THEN edges
    ELSE IF h > Len(g.walls[w].holes) THEN RdrLoop(g, m, w + 1, 1, edges)
    ELSE IF g.walls[w].holes[h].type = "door"
    THEN RdrLoop(g, m, w, h + 1, edges \o DoorEdges(_find_adjacent_rooms(g, m, w), <<w, h>>))
    ELSE RdrLoop(g, m, w, h + 1, edges)
compute_rdr(g, m, edges) == RdrLoop(g, m, 1, 1, edges)

(***************************************************************************)
(* Direct use of the graph: sequences of add_wall calls, then find_room    *)
(***************************************************************************)
MaxWalls == 3
GraphPoints == {<<0, 0>>, <<1, 0>>, <<2, 0>>, <<2, 3>>}
GraphTolerances == {<<0, 1>>, <<1, 2>>, <<3, 2>>, <<7, 2>>}

NoConf == [wall_join_margin |-> <<0, 1>>]
NoCall == [p1 |-> <<0, 0>>, p2 |-> <<0, 0>>, before |-> 0, index |-> <<>>]
NoRoom == [walls |-> <<>>, closed |-> FALSE, start_node |-> None]

InitGraph ==
    /\ pc = "api"
    /\ conf = NoConf
    /\ walls = <<>>
    /\ openings = <<>>
    /\ raw_room_annotations = <<>>
    /\ \E t \in GraphTolerances : wall_graph = NewGraph(t)
    /\ room_description_map = <<>>
    /\ rdr = <<>>
    /\ iter_count = 0
    /\ error = "none"
    /\ stages = <<>>
    /\ last_call = NoCall
    /\ room = NoRoom

\* one call wall_graph.add_wall(p1, p2)
AddWall(p1, p2) ==
    /\ pc = "api"
    /\ error = "none"
    /\ Len(wall_graph.walls) < MaxWalls
    /\ LET r == add_wall(wall_graph, p1, p2)
       IN  /\ wall_graph' = r.g
           /\ error' = IF r.raised THEN "AssertionError" ELSE "none"
    /\ last_call' = [p1 |-> p1, p2 |-> p2, before |-> Len(wall_graph.walls),
                     index |-> wall_graph.wall_corners]
    /\ UNCHANGED <<pc, conf, walls, openings, raw_room_annotations,
                   room_description_map, rdr,
                   iter_count, stages, room>>

\* one call find_room(start_node, wall), start_node an endpoint of the wall
FindRoom(w, start_node) ==
    /\ pc = "api"
    /\ error = "none"
    /\ w \in DOMAIN wall_graph.walls
    /\ start_node \in {wall_graph.walls[w].p1, wall_graph.walls[w].p2}
    /\ room' = [walls |-> find_room(wall_graph, start_node, w).walls,
                closed |-> find_room(wall_graph, start_node, w).closed,
                start_node |-> start_node]
    /\ pc' = "api_done"
    /\ last_call' = NoCall
    /\ UNCHANGED <<conf, walls, openings, raw_room_annotations,
                   wall_graph, room_description_map, rdr,
                   iter_count, error, stages>>

NextGraph == \E p1 \in GraphPoints, p2 \in GraphPoints : AddWall(p1, p2)

SpecGraph == InitGraph /\ [][NextGraph]_vars

(***************************************************************************)
(* convert.run: the stages on one House, called with skip_objects=True,    *)
(* classify_doors_and_windows=True, skip_rdr=False, r2v_annot=True and an  *)
(* input file without room annotations                                     *)
(***************************************************************************)
Conf(tolerance, cutoff, max_iter, eliminate, threshold, split_max_iter) ==
    [wall_join_margin |-> tolerance,
     split_walls |-> [enabled |-> TRUE, max_iter |-> split_max_iter],
     straighten_walls |-> [enabled |-> TRUE, cutoff_gradient |-> cutoff,
                           max_iter |-> max_iter],
     eliminate_false_rooms |-> [enabled |-> eliminate, threshold |-> threshold],
     max_door_perpendicular_offset |-> <<5, 1>>,
     room_label_assignment_overlap |-> <<1, 2>>]

\* House() with the records of the file loaded
Loaded(c, ws, os, start) ==
    /\ pc = start
    /\ conf = c
    /\ walls = ws
    /\ openings = os
    /\ raw_room_annotations = <<>>
    /\ wall_graph = NewGraph(c.wall_join_margin)
    /\ room_description_map = <<>>
    /\ rdr = <<>>
    /\ iter_count = 0
    /\ error = "none"
    /\ stages = <<>>
    /\ last_call = NoCall
    /\ room = NoRoom

\* convert.run lines 28-29
SplitSourceWalls ==
    /\ pc = "split"
    /\ walls' = IF conf.split_walls.enabled
                THEN split_source_walls(walls, conf.split_walls.max_iter,
                                        conf.wall_join_margin)
                ELSE walls
    /\ stages' = IF conf.split_walls.enabled
                 THEN Append(stages, "split_source_walls") ELSE stages
    /\ pc' = "add_walls"
    /\ UNCHANGED <<conf, openings, raw_room_annotations,
                   wall_graph, room_description_map, rdr,
                   iter_count, error, last_call, room>>

\* generate_wall_graph lines 412-421
GenerateAddWalls ==
    /\ pc = "add_walls"
    /\ LET r == AddWalls(NewGraph(conf.wall_join_margin), walls, 1)
       IN  /\ wall_graph' = r.g
           /\ error' = IF r.raised THEN "AssertionError" ELSE error
           /\ pc' = IF r.raised THEN "failed" ELSE "detect_rooms"
    /\ stages' = Append(stages, "add_walls")
    /\ UNCHANGED <<conf, walls, openings, raw_room_annotations,
                   room_description_map, rdr, iter_count,
                   last_call, room>>

\* generate_wall_graph lines 423-431
GenerateDetectRooms ==
    /\ pc = "detect_rooms"
    /\ room_description_map' = DetectRooms(wall_graph, <<>>, 1)
    /\ stages' = Append(stages, "detect_rooms")
    /\ pc' = "eliminate"
    /\ UNCHANGED <<conf, walls, openings, raw_room_annotations,
                   wall_graph, rdr, iter_count, error,
                   last_call, room>>

\* generate_wall_graph lines 433-435
GenerateEliminateFalseRooms ==
    /\ pc = "eliminate"
    /\ room_description_map' =
          IF conf.eliminate_false_rooms.enabled
          THEN _eliminate_false_rooms(wall_graph, room_description_map,
                                      conf.eliminate_false_rooms.threshold)
          ELSE room_description_map
    /\ stages' = IF conf.eliminate_false_rooms.enabled
                 THEN Append(stages, "_eliminate_false_rooms") ELSE stages
    /\ pc' = "add_doors"
    /\ UNCHANGED <<conf, walls, openings, raw_room_annotations,
                   wall_graph, rdr, iter_count, error,
                   last_call, room>>

\* generate_wall_graph lines 439-464
GenerateAddDoors ==
    /\ pc = "add_doors"
    /\ wall_graph' = add_doors(wall_graph, openings, conf.max_door_perpendicular_offset)
    /\ stages' = Append(stages, "add_doors")
    /\ pc' = "straighten"
    /\ UNCHANGED <<conf, walls, openings, raw_room_annotations,
                   room_description_map, rdr, iter_count,
                   error, last_call, room>>

\* straighten_walls with the loop test iter_count <= max_iter_count
StraightenWallsOneMore ==
    /\ pc = "straighten"
    /\ stages' = IF conf.straighten_walls.enabled /\ iter_count = 0
                 THEN Append(stages, "straighten_walls") ELSE stages
    /\ IF \/ ~conf.straighten_walls.enabled
          \/ iter_count > conf.straighten_walls.max_iter
          \/ ScanStops(wall_graph, conf.straighten_walls.cutoff_gradient) = {}
       THEN /\ pc' = "annotations"
            /\ UNCHANGED <<wall_graph, iter_count, error>>
       ELSE LET r == StraightenWall(wall_graph,
                        Least(ScanStops(wall_graph,
                                            conf.straighten_walls.cutoff_gradient)),
                        conf.straighten_walls.cutoff_gradient)
            IN  /\ wall_graph' = r.g
                /\ error' = IF r.raised THEN "StraightenWallsFailed" ELSE error
                /\ pc' = IF r.raised THEN "failed" ELSE pc
                /\ iter_count' = IF r.raised THEN iter_count ELSE iter_count + 1
    /\ UNCHANGED <<conf, walls, openings, raw_room_annotations,
                   room_description_map, rdr, last_call, room>>
\* convert.run lines 34-36, straighten_walls: one pass of its while loop
StraightenWalls ==
    /\ pc = "straighten"
    /\ stages' = IF conf.straighten_walls.enabled /\ iter_count = 0
                 THEN Append(stages, "straighten_walls") ELSE stages
    /\ IF \/ ~conf.straighten_walls.enabled
          \/ iter_count >= conf.straighten_walls.max_iter
          \/ ScanStops(wall_graph, conf.straighten_walls.cutoff_gradient) = {}
       THEN /\ pc' = "annotations"
            /\ UNCHANGED <<wall_graph, iter_count, error>>
       ELSE LET r == StraightenWall(wall_graph,
                        Least(ScanStops(wall_graph,
                                            conf.straighten_walls.cutoff_gradient)),
                        conf.straighten_walls.cutoff_gradient)
            IN  /\ wall_graph' = r.g
                /\ error' = IF r.raised THEN "StraightenWallsFailed" ELSE error
                /\ pc' = IF r.raised THEN "failed" ELSE pc
                /\ iter_count' = IF r.raised THEN iter_count ELSE iter_count + 1
    /\ UNCHANGED <<conf, walls, openings, raw_room_annotations,
                   room_description_map, rdr, last_call, room>>

\* convert.run lines 39-40
PopulateRoomAnnotations ==
    /\ pc = "annotations"
    /\ LET r == populate_room_annotations(wall_graph, room_description_map,
                                          raw_room_annotations,
                                          conf.room_label_assignment_overlap)
       IN  /\ room_description_map' = r.m
           /\ error' = IF r.raised THEN "ValueError" ELSE error
           /\ pc' = IF r.raised THEN "failed" ELSE "classify"
    /\ stages' = Append(stages, "populate_room_annotations")
    /\ UNCHANGED <<conf, walls, openings, raw_room_annotations, wall_graph, rdr,
                   iter_count, last_call, room>>

\* convert.run lines 45-47
ClassifyDoorsAndWindows ==
    /\ pc = "classify"
    /\ LET r == classify_doors_and_windows(wall_graph, room_description_map)
       IN  /\ wall_graph' = r.g
           /\ error' = IF r.raised THEN "AssertionError" ELSE error
           /\ pc' = IF r.raised THEN "failed" ELSE "descriptions"
    /\ stages' = Append(stages, "classify_doors_and_windows")
    /\ UNCHANGED <<conf, walls, openings, raw_room_annotations,
                   room_description_map, rdr, iter_count,
                   last_call, room>>

\* convert.run lines 49-53: the rooms get their ids
PopulateRoomDescriptions ==
    /\ pc = "descriptions"
    /\ stages' = Append(stages, "populate_room_descriptions")
    /\ pc' = "rdr"
    /\ UNCHANGED <<conf, walls, openings, raw_room_annotations,
                   wall_graph, room_description_map, rdr,
                   iter_count, error, last_call, room>>

\* convert.run lines 55-57
ComputeRdr ==
    /\ pc = "rdr"
    /\ rdr' = compute_rdr(wall_graph, room_description_map, rdr)
    /\ stages' = Append(stages, "compute_rdr")
    /\ pc' = "done"
    /\ UNCHANGED <<conf, walls, openings, raw_room_annotations,
                   wall_graph, room_description_map,
                   iter_count, error, last_call, room>>

\* House.generate_wall_graph alone
NextGenerate ==
    \/ GenerateAddWalls
    \/ GenerateDetectRooms
    \/ GenerateEliminateFalseRooms
    \/ GenerateAddDoors

Next ==
    \/ SplitSourceWalls
    \/ GenerateAddWalls
    \/ GenerateDetectRooms
    \/ GenerateEliminateFalseRooms
    \/ GenerateAddDoors
    \/ StraightenWalls
    \/ PopulateRoomAnnotations
    \/ ClassifyDoorsAndWindows
    \/ PopulateRoomDescriptions
    \/ ComputeRdr

(***************************************************************************)
(* Inputs                                                                  *)
(***************************************************************************)
\* the square of side 10: its four sides in any order, each in either direction
SquareCorners == << <<0, 0>>, <<10, 0>>, <<10, 10>>, <<0, 10>> >>
SquareSides ==
    {Record(SquareCorners[i], SquareCorners[(i % 4) + 1]) : i \in 1..4}
    \cup {Record(SquareCorners[(i % 4) + 1], SquareCorners[i]) : i \in 1..4}
Ends(wall) == {<<wall.x_min, wall.y_min>>, <<wall.x_max, wall.y_max>>}
SquareInputs ==
    {ws \in [1..4 -> SquareSides] :
        \A i \in 1..4, j \in 1..4 : i # j => Ends(ws[i]) # Ends(ws[j])}

InitSquare ==
    \E ws \in SquareInputs, eliminate \in BOOLEAN :
        Loaded(Conf(<<1, 2>>, <<1, 5>>, 1, eliminate, <<1, 10>>, 1), ws, <<>>,
               "add_walls")

SpecSquare == InitSquare /\ [][NextGenerate]_vars

\* a rectangle of width w and height h cut at x = a by one internal wall, the
\* perimeter walls ending at the two T-junctions; the wall list starts anywhere
RectWidths == {20, 30}
RectHeights == {10, 15}
RectCuts == {10}
RectThresholds == {<<0, 1>>, <<1, 10>>, <<1, 2>>, <<9, 10>>}
RectWalls(w, h, a) ==
    << Record(<<0, 0>>, <<a, 0>>), Record(<<a, 0>>, <<w, 0>>),
       Record(<<w, 0>>, <<w, h>>), Record(<<w, h>>, <<a, h>>),
       Record(<<a, h>>, <<0, h>>), Record(<<0, h>>, <<0, 0>>),
       Record(<<a, 0>>, <<a, h>>) >>
Rotate(s, k) == [i \in 1..Len(s) |-> s[((i + k - 1) % Len(s)) + 1]]

InitRect ==
    \E w \in RectWidths, h \in RectHeights, a \in RectCuts, k \in 0..6,
       threshold \in RectThresholds :
        Loaded(Conf(<<1, 2>>, <<1, 5>>, 1, TRUE, threshold, 1),
               Rotate(RectWalls(w, h, a), k), <<>>, "add_walls")

SpecRect == InitRect /\ [][NextGenerate]_vars

\* two rooms of 20 by 20 side by side, as a raster-to-vector annotation: the
\* junctions B and C are up to one pixel off (nb, nc), the internal wall BE
\* starts j pixels below B, comes first or last in the file, and the top and
\* bottom walls are either given in one piece or already cut at B and E
StraightenMaxIter == 4
SplitMaxIter == 10
PlanBE(nb, j) == Record(<<20 + nb, j>>, <<20, 20>>)
PlanCut(nb, nc) ==
    << Record(<<0, 0>>, <<20 + nb, 0>>), Record(<<20 + nb, 0>>, <<40, nc>>),
       Record(<<40, nc>>, <<40, 20>>), Record(<<40, 20>>, <<20, 20>>),
       Record(<<20, 20>>, <<0, 20>>), Record(<<0, 20>>, <<0, 0>>) >>
\* the uncut plans are records of an output file, with their room types
PlanUncutBE(nb, j) == TypedRecord(<<20 + nb, j>>, <<20, 20>>, "bedroom", "kitchen")
PlanUncut(nc) ==
    << TypedRecord(<<0, 0>>, <<40, nc>>, "outside", "bedroom"),
       TypedRecord(<<40, nc>>, <<40, 20>>, "outside", "kitchen"),
       TypedRecord(<<40, 20>>, <<0, 20>>, "outside", "corridor"),
       TypedRecord(<<0, 20>>, <<0, 0>>, "outside", "bedroom") >>
Plan(cut, nb, nc, j, first) ==
    IF first
    THEN (IF cut THEN <<PlanBE(nb, j)>> \o PlanCut(nb, nc)
                 ELSE <<PlanUncutBE(nb, j)>> \o PlanUncut(nc))
    ELSE (IF cut THEN PlanCut(nb, nc) \o <<PlanBE(nb, j)>>
                 ELSE PlanUncut(nc) \o <<PlanUncutBE(nb, j)>>)
\* the cut plan after a wall record of length zero at (36, 10)
PlanPoint == <<Record(<<36, 10>>, <<36, 10>>)>> \o Plan(TRUE, 0, 0, 0, FALSE)
Plans ==
    {Plan(cut, nb, nc, j, first) :
        cut \in BOOLEAN, nb \in {0, 1}, nc \in {0, 1}, j \in {0, 1}, first \in BOOLEAN}
    \cup {PlanPoint}
DoorBE == Record(<<20, 5>>, <<20, 12>>)
DoorCD == Record(<<40, 6>>, <<40, 14>>)
OpeningLists == {<<>>, <<DoorBE>>, <<DoorCD, DoorBE>>}
PlanTolerances == {<<1, 2>>, <<3, 1>>}

Init ==
    \E ws \in Plans, os \in OpeningLists, tolerance \in PlanTolerances,
       max_iter \in {1, StraightenMaxIter}, split_max_iter \in {1, SplitMaxIter} :
        Loaded(Conf(tolerance, <<1, 5>>, max_iter, FALSE, <<1, 10>>, split_max_iter),
               ws, os, "split")

Spec == Init /\ [][Next]_vars

\* Plans with openings: the two rooms of Plan with the perimeter already cut
\* (B exact or one pixel off) and a right triangle with sides 30, 40, 50. The
\* openings lie on a wall, beside it (two pixels off), reach beyond its end, or
\* lie askew to the sloping side; entrances and a room label are drawn into the
\* two rooms. False rooms are eliminated only in the plans
\* whose rooms have every side parallel to an axis before straightening
DoorPlanRect(nb) == Plan(TRUE, nb, 0, 0, FALSE)
DoorPlanTriangle ==
    << Record(<<0, 0>>, <<30, 0>>), Record(<<30, 0>>, <<30, 40>>),
       Record(<<30, 40>>, <<0, 0>>) >>
RectOpenings ==
    {Record(<<20, 5>>, <<20, 12>>), Record(<<5, 2>>, <<12, 2>>),
     Record(<<12, 0>>, <<25, 0>>), Record(<<40, 6>>, <<40, 14>>)}
TriangleOpenings ==
    {Record(<<6, 8>>, <<12, 16>>), Record(<<0, 5>>, <<4, 4>>),
     Record(<<5, 0>>, <<12, 0>>)}
\* an opening in the corner of the right half: it passes line_contains_check
\* on the wall (20,0)-(40,0) with offset 2 and on the wall (20,0)-(20,20) with
\* offset 1
RectCornerOpening == Record(<<21, 2>>, <<24, 5>>)
\* a long opening on the wall (0,0)-(20,0) that passes under the left
\* entrance annotation, and a short one on the wall (0,20)-(0,0) beside it
RectLongOpening == Record(<<0, 0>>, <<19, 0>>)
RectSideOpening == Record(<<0, 1>>, <<0, 3>>)
UpToTwo(S) ==
    {<<>>} \cup {<<a>> : a \in S} \cup {c \in S \X S : c[1] # c[2]}
\* a raw annotation record: an entrance or a room label with its box
Annotation(category, a, b) ==
    [category |-> category, x_min |-> a[1], y_min |-> a[2], x_max |-> b[1],
     y_max |-> b[2]]
EntranceLeft == Annotation("entrance", <<2, 1>>, <<4, 3>>)
EntranceRight == Annotation("entrance", <<36, 8>>, <<38, 10>>)
LabelLeft == Annotation("bedroom", <<5, 5>>, <<8, 8>>)
AnnotationLists ==
    {<<>>, <<EntranceLeft>>, <<EntranceRight>>, <<LabelLeft, EntranceLeft>>}
\* a square with a chain of two walls hanging on its corner (10, 0)
DoorPlanChain ==
    << Record(<<0, 0>>, <<10, 0>>), Record(<<10, 0>>, <<10, 10>>),
       Record(<<10, 10>>, <<0, 10>>), Record(<<0, 10>>, <<0, 0>>),
       Record(<<20, 0>>, <<10, 0>>), Record(<<20, 0>>, <<30, 0>>) >>
ChainOpenings == {<<>>, <<Record(<<12, 0>>, <<18, 0>>)>>}
\* a steep wall whose correction moves the Corner (0, 0) onto the other end
\* of the short wall (0, 0)-(1, 0)
DoorPlanCollapsing ==
    << Record(<<0, 0>>, <<1, 10>>), Record(<<0, 0>>, <<1, 0>>) >>
\* the correction of the first wall moves the Corner (0, 0) onto the Corner
\* (1, 0) of the second wall, the correction of the second wall moves that
\* Corner away, and the third wall then moves the Corner of the first
DoorPlanLostKey ==
    << Record(<<0, 0>>, <<1, 10>>), Record(<<1, 0>>, <<11, 1>>),
       Record(<<0, 0>>, <<12, 1>>) >>
\* two near-vertical walls that share their upper Corner: the correction of
\* one inclines the other, and the two corrections alternate
DoorPlanAlternating ==
    << Record(<<1, 0>>, <<2, 10>>), Record(<<1, 0>>, <<0, 10>>) >>
DoorInputs ==
    {[walls |-> DoorPlanRect(nb), openings |-> os, annotations |-> as,
      eliminate |-> (e /\ nb = 0)] :
        nb \in {0, 1}, os \in UpToTwo(RectOpenings), as \in AnnotationLists,
        e \in BOOLEAN}
    \cup {[walls |-> DoorPlanTriangle, openings |-> os, annotations |-> <<>>,
           eliminate |-> e] :
        os \in UpToTwo(TriangleOpenings), e \in BOOLEAN}
    \cup {[walls |-> DoorPlanChain, openings |-> os, annotations |-> <<>>,
           eliminate |-> FALSE] :
        os \in ChainOpenings}
    \cup {[walls |-> ws, openings |-> <<>>, annotations |-> <<>>,
           eliminate |-> FALSE] :
        ws \in {DoorPlanCollapsing, DoorPlanLostKey, DoorPlanAlternating}}
    \cup {[walls |-> DoorPlanRect(0), openings |-> <<RectCornerOpening>>,
           annotations |-> as, eliminate |-> FALSE] :
        as \in {<<>>, <<EntranceRight>>}}
    \cup {[walls |-> DoorPlanRect(0), openings |-> os,
           annotations |-> <<EntranceLeft>>, eliminate |-> TRUE] :
        os \in {<<RectLongOpening, RectSideOpening>>,
                <<RectSideOpening, RectLongOpening>>}}

InitDoors ==
    \E in \in DoorInputs :
        /\ pc = "split"
        /\ conf = Conf(<<1, 2>>, <<1, 5>>, StraightenMaxIter, in.eliminate,
                       <<1, 10>>, SplitMaxIter)
        /\ walls = in.walls
        /\ openings = in.openings
        /\ raw_room_annotations = in.annotations
        /\ wall_graph = NewGraph(<<1, 2>>)
        /\ room_description_map = <<>>
        /\ rdr = <<>>
        /\ iter_count = 0
        /\ error = "none"
        /\ stages = <<>>
        /\ last_call = NoCall
        /\ room = NoRoom

SpecDoors == InitDoors /\ [][Next]_vars

(***************************************************************************)
(* Face tracing on graphs built from a list of candidate walls             *)
(***************************************************************************)
\* a triangle A B C, the side AB a second time in the other direction, the
\* point D on AB with the walls AD, DB, and the chord DC
TraceSegments ==
    << << <<0, 0>>, <<4, 0>> >>, << <<4, 0>>, <<4, 3>> >>, << <<4, 3>>, <<0, 0>> >>,
       << <<4, 0>>, <<0, 0>> >>, << <<0, 0>>, <<2, 0>> >>, << <<2, 0>>, <<4, 0>> >>,
       << <<2, 0>>, <<4, 3>> >> >>

InitTrace ==
    /\ pc = "api"
    /\ conf = NoConf
    /\ walls = <<>>
    /\ openings = <<>>
    /\ raw_room_annotations = <<>>
    /\ wall_graph = NewGraph(<<1, 2>>)
    /\ room_description_map = <<>>
    /\ rdr = <<>>
    /\ iter_count = 0
    /\ error = "none"
    /\ stages = <<>>
    /\ last_call = NoCall
    /\ room = NoRoom

\* one call wall_graph.add_wall on candidate k; the candidates are taken in
\* the order of the list (iter_count is the last one taken)
AddSegment(k) ==
    /\ pc = "api"
    /\ error = "none"
    /\ k > iter_count
    /\ LET r == add_wall(wall_graph, TraceSegments[k][1], TraceSegments[k][2])
       IN  /\ wall_graph' = r.g
           /\ error' = IF r.raised THEN "AssertionError" ELSE "none"
    /\ iter_count' = k
    /\ UNCHANGED <<pc, conf, walls, openings, raw_room_annotations,
                   room_description_map, rdr, stages,
                   last_call, room>>

NextTrace ==
    \/ \E k \in DOMAIN TraceSegments : AddSegment(k)
    \/ \E w \in DOMAIN wall_graph.walls, n \in DOMAIN wall_graph.corners : FindRoom(w, n)

SpecTrace == InitTrace /\ [][NextTrace]_vars

(***************************************************************************)
(* Claims about add_wall                                                   *)
(***************************************************************************)
\* the endpoints inserted so far: <<wall, 1>> is the wall's p1, <<wall, 2>> its p2
Endpoints(g) == (DOMAIN g.walls) \X {1, 2}
EndpointArg(g, e) == IF e[2] = 1 THEN g.walls[e[1]].a1 ELSE g.walls[e[1]].a2
EndpointCorner(g, e) == IF e[2] = 1 THEN g.walls[e[1]].p1 ELSE g.walls[e[1]].p2
WithinTolerance(g, a, b) ==
    RatLess(Rat(manhattan_distance_between(a, b)), g.tolerance_distance)

\* C2: no degenerate walls. After any sequence of add_wall calls the assertion
\* of add_wall has not failed, every wall joins two distinct Corners at
\* different positions, and a call with p1 = p2 has inserted nothing.
C2_NoDegenerateWalls ==
    pc = "api" =>
        /\ error # "AssertionError"
        /\ \A w \in DOMAIN wall_graph.walls :
              /\ wall_graph.walls[w].p1 # wall_graph.walls[w].p2
              /\ wall_graph.corners[wall_graph.walls[w].p1].pos
                    # wall_graph.corners[wall_graph.walls[w].p2].pos
        /\ (last_call # NoCall /\ last_call.p1 = last_call.p2
               => Len(wall_graph.walls) = last_call.before)
        /\ (last_call # NoCall /\ last_call.p1 # last_call.p2
               => Len(wall_graph.walls) = last_call.before + 1)

\* C2 witness: a wall whose two endpoints had the same closest Corner was
\* inserted through the tie-break, and a call with p1 = p2 was made
C2_Witness_TieBreak ==
    /\ pc = "api"
    /\ last_call # NoCall
    /\ last_call.p1 # last_call.p2
    /\ Len(wall_graph.walls) = last_call.before + 1
    /\ LET g0 == [wall_graph EXCEPT !.wall_corners = last_call.index]
       IN  /\ find_closest(last_call.p1, g0)[1] # None
           /\ find_closest(last_call.p1, g0)[1] = find_closest(last_call.p2, g0)[1]

\* C3 as stated: two endpoints of different walls with the same coordinates, or
\* within tolerance_distance of one another, are attached to the same Corner
C3_Original_SameCorner ==
    pc = "api" =>
        \A e \in Endpoints(wall_graph), f \in Endpoints(wall_graph) :
            /\ e[1] # f[1]
            /\ \/ EndpointArg(wall_graph, e) = EndpointArg(wall_graph, f)
               \/ WithinTolerance(wall_graph, EndpointArg(wall_graph, e),
                                  EndpointArg(wall_graph, f))
            => EndpointCorner(wall_graph, e) = EndpointCorner(wall_graph, f)

\* C3 amended: with tolerance_distance > 0, an endpoint passed to add_wall whose
\* coordinates equal the position of a Corner that is in the index at the time
\* of the call is attached to that very Corner.
C3_ExistingCornerReused ==
    /\ pc = "api"
    /\ last_call # NoCall
    /\ Len(wall_graph.walls) = last_call.before + 1
    /\ RatLess(Rat(0), wall_graph.tolerance_distance)
    => LET w == wall_graph.walls[Len(wall_graph.walls)]
       IN  \A i \in DOMAIN last_call.index :
              LET n == last_call.index[i].node
              IN  /\ wall_graph.corners[n].pos = w.a1 => w.p1 = n
                  /\ wall_graph.corners[n].pos = w.a2 => w.p2 = n

\* C3 witness: an endpoint was inserted at the position of an indexed Corner
\* while another indexed Corner was within tolerance of it too
C3_Witness_Reused ==
    /\ pc = "api"
    /\ last_call # NoCall
    /\ Len(wall_graph.walls) = last_call.before + 1
    /\ LET w == wall_graph.walls[Len(wall_graph.walls)]
       IN  \E i \in DOMAIN last_call.index, j \in DOMAIN last_call.index :
              /\ i # j
              /\ wall_graph.corners[last_call.index[i].node].pos = w.a1
              /\ w.p1 = last_call.index[i].node
              /\ WithinTolerance(wall_graph,
                                 wall_graph.corners[last_call.index[j].node].pos, w.a1)

\* C4 as stated: two endpoints farther apart than tolerance_distance are
\* attached to two distinct Corners
C4_Original_FarApartDistinct ==
    pc = "api" =>
        \A e \in Endpoints(wall_graph), f \in Endpoints(wall_graph) :
            /\ e # f
            /\ RatLess(wall_graph.tolerance_distance,
                       Rat(manhattan_distance_between(EndpointArg(wall_graph, e),
                                                      EndpointArg(wall_graph, f))))
            => EndpointCorner(wall_graph, e) # EndpointCorner(wall_graph, f)

\* C4 amended: two inserted endpoints whose distance (max norm) is at least
\* twice tolerance_distance are attached to two distinct Corners, and so are the
\* two endpoints of one wall.
C4_TwiceToleranceDistinct ==
    pc = "api" =>
        \A e \in Endpoints(wall_graph), f \in Endpoints(wall_graph) :
            /\ e # f
            /\ \/ e[1] = f[1]
               \/ ~RatLess(Rat(manhattan_distance_between(EndpointArg(wall_graph, e),
                                                          EndpointArg(wall_graph, f))),
                           <<2 * wall_graph.tolerance_distance[1],
                             wall_graph.tolerance_distance[2]>>)
            => EndpointCorner(wall_graph, e) # EndpointCorner(wall_graph, f)

\* C4 witness: with a positive tolerance, an endpoint was merged into a Corner
\* that is not at its own position, and two endpoints of different walls at
\* least twice the tolerance apart are on two distinct Corners
C4_Witness_Merged ==
    /\ pc = "api"
    /\ RatLess(Rat(0), wall_graph.tolerance_distance)
    /\ \E e \in Endpoints(wall_graph) :
          wall_graph.corners[EndpointCorner(wall_graph, e)].pos
              # EndpointArg(wall_graph, e)
    /\ \E e \in Endpoints(wall_graph), f \in Endpoints(wall_graph) :
          /\ e[1] # f[1]
          /\ ~RatLess(Rat(manhattan_distance_between(EndpointArg(wall_graph, e),
                                                     EndpointArg(wall_graph, f))),
                      <<2 * wall_graph.tolerance_distance[1],
                        wall_graph.tolerance_distance[2]>>)
          /\ EndpointCorner(wall_graph, e) # EndpointCorner(wall_graph, f)

(***************************************************************************)
(* Claims about room detection                                             *)
(***************************************************************************)
\* C1: unit-square scenario. When the four sides of the square (0,0), (10,0),
\* (10,10), (0,10) are inserted with tolerance_distance 0.5 and rooms are
\* detected from both ends of every wall, nothing fails, the room map holds
\* exactly one RoomDescription, its wall list has exactly 4 walls and its
\* polygon has area 100 (whatever the order and direction of the four sides).
C1_UnitSquareOneRoom ==
    \/ pc = "add_walls"
    \/ /\ error = "none"
       /\ Len(wall_graph.walls) = 4
       /\ \/ pc = "detect_rooms"
          \/ /\ Len(room_description_map) = 1
             /\ Len(room_description_map[1].walls) = 4
             /\ PolygonArea2(get_polyline(wall_graph, room_description_map[1].walls))
                   = 2 * 100

\* C1 witness: rooms were detected on the four walls in the order of the claim
C1_Witness_Detected ==
    /\ pc = "eliminate"
    /\ walls = << Record(<<0, 0>>, <<10, 0>>), Record(<<10, 0>>, <<10, 10>>),
                  Record(<<10, 10>>, <<0, 10>>), Record(<<0, 10>>, <<0, 0>>) >>
    /\ wall_graph.tolerance_distance = <<1, 2>>
    /\ Len(room_description_map) = 1

\* a wall of the graph ends in a Corner that has no other wall
NoDanglingCorner(g) == \A c \in DOMAIN g.corners : Len(g.corners[c].adj) # 1
SharesCorner(g, v, w) ==
    {g.walls[v].p1, g.walls[v].p2} \cap {g.walls[w].p1, g.walls[w].p2} # {}
ConsecutiveShare(g, ws) ==
    \A i \in DOMAIN ws : SharesCorner(g, ws[i], ws[(i % Len(ws)) + 1])
\* the vector along wall w leaving Corner c
Leaving(g, c, w) ==
    <<g.corners[OtherEnd(g, w, c)].pos[1] - g.corners[c].pos[1],
      g.corners[OtherEnd(g, w, c)].pos[2] - g.corners[c].pos[2]>>
SameDirection(u, v) == u[1] * v[2] - u[2] * v[1] = 0 /\ u[1] * v[1] + u[2] * v[2] > 0
NoSharedDirection(g) ==
    \A c \in DOMAIN g.corners :
        \A i \in DOMAIN g.corners[c].adj, j \in DOMAIN g.corners[c].adj :
            i # j => ~SameDirection(Leaving(g, c, g.corners[c].adj[i]),
                                    Leaving(g, c, g.corners[c].adj[j]))

C6_Original_KeyStable ==
    /\ \A i \in DOMAIN room_description_map :
          \A e \in room_description_map[i].key :
              InKey(wall_graph, room_description_map[i].key, e.wall)
    /\ \A w \in DOMAIN wall_graph.walls :
          _find_adjacent_rooms(wall_graph, room_description_map, w)
              = AdjacentRoomsByList(room_description_map, w)

\* the edges of rdr that reference hole h of wall w
EdgesOf(w, h) == SelectSeq(rdr, LAMBDA e : e.hole = <<w, h>>)

\* C7 as stated: RDR symmetry. At the end of the pipeline every door on a wall
\* that belongs to the wall sets of exactly two rooms A and B has the edges
\* (A, hole, B) and (B, hole, A) in rdr and no other edge
C7_Original_RdrSymmetric ==
    pc = "done" =>
        \A w \in DOMAIN wall_graph.walls : \A h \in DOMAIN wall_graph.walls[w].holes :
            /\ wall_graph.walls[w].holes[h].type = "door"
            /\ Len(AdjacentRoomsByList(room_description_map, w)) = 2
            => Range(EdgesOf(w, h))
                  = {[a |-> AdjacentRoomsByList(room_description_map, w)[1],
                      hole |-> <<w, h>>,
                      b |-> AdjacentRoomsByList(room_description_map, w)[2]],
                     [a |-> AdjacentRoomsByList(room_description_map, w)[2],
                      hole |-> <<w, h>>,
                      b |-> AdjacentRoomsByList(room_description_map, w)[1]]}
               /\ Len(EdgesOf(w, h)) = 2

\* stage s has been run
Ran(s) == s \in Range(stages)
\* straighten_walls has returned
StraightenFinished == pc \in {"annotations", "classify", "descriptions", "rdr", "done"}

\* C8 as stated: stage ordering. False-room elimination and opening assignment
\* never run before wall straightening has finished, and wall straightening
\* does not start before rooms are extracted
C8_Original_StageOrder ==
    /\ Ran("_eliminate_false_rooms") \/ Ran("add_doors") => StraightenFinished
    /\ Ran("straighten_walls") => Ran("detect_rooms")

\* C9: straightening convergence. Whenever straighten_walls has returned
\* because a scan found no offending wall (fewer than max_iter corrections were
\* made), no wall has |dx|/length or |dy|/length strictly between 0 and
\* cutoff_gradient.
C9_StraightenConverged ==
    /\ pc = "annotations"
    /\ conf.straighten_walls.enabled
    /\ iter_count < conf.straighten_walls.max_iter
    => /\ error = "none"
       /\ \A w \in DOMAIN wall_graph.walls :
             /\ ~ZeroLength(wall_graph, w)
             /\ ~Inclined(wall_graph, w, 1, conf.straighten_walls.cutoff_gradient)
             /\ ~Inclined(wall_graph, w, 2, conf.straighten_walls.cutoff_gradient)

\* C9 witness: straighten_walls returned from a scan after several corrections,
\* with corrections to spare
C9_Witness_Converged ==
    /\ pc = "annotations"
    /\ iter_count >= 2
    /\ iter_count < conf.straighten_walls.max_iter

\* the rectangle scenario read off the raw walls: the rectangle spans (0,0) to
\* (RectWidth, RectHeight), the internal wall is the vertical one at x = RectCut
Greatest(S) == CHOOSE w \in S : \A v \in S : v <= w
RectWidth == Greatest({walls[i].x_min : i \in DOMAIN walls})
RectHeight == Greatest({walls[i].y_min : i \in DOMAIN walls})
RectCut ==
    LET i == CHOOSE i \in DOMAIN walls :
                 /\ walls[i].x_min = walls[i].x_max
                 /\ walls[i].x_min \notin {0, RectWidth}
    IN  walls[i].x_min
RoomPolygons ==
    {Range(get_polyline(wall_graph, room_description_map[i].walls)) :
        i \in DOMAIN room_description_map}
HalvesRemain ==
    /\ error = "none"
    /\ Len(room_description_map) = 2
    /\ RoomPolygons
          = { {<<0, 0>>, <<RectCut, 0>>, <<RectCut, RectHeight>>, <<0, RectHeight>>},
              {<<RectCut, 0>>, <<RectWidth, 0>>, <<RectWidth, RectHeight>>,
               <<RectCut, RectHeight>>} }
    /\ \A i \in DOMAIN room_description_map :
          PolygonArea2(get_polyline(wall_graph, room_description_map[i].walls))
              < 2 * RectWidth * RectHeight

\* C10 as stated: for a rectangle cut in two by one internal wall, room
\* detection followed by _eliminate_false_rooms with a threshold below 1 leaves
\* exactly the two halves in the room map
C10_Original_BelowOne ==
    /\ pc \in {"add_doors", "straighten"}
    /\ RatLess(conf.eliminate_false_rooms.threshold, Rat(1))
    => HalvesRemain

(***************************************************************************)
(* Claims about openings                                                   *)
(***************************************************************************)
HoleSlots(g) == {s \in (DOMAIN g.walls) \X (1..Len(openings)) :
                    s[2] \in DOMAIN g.walls[s[1]].holes}
HoleAt(g, s) == g.walls[s[1]].holes[s[2]]
WallP1(g, w) == g.corners[g.walls[w].p1].pos
WallP2(g, w) == g.corners[g.walls[w].p2].pos

\* C11 as stated: in every state, every Hole on a wall has
\* 0 <= min_x <= max_x <= the distance between the wall's two Corners
C11_Original_HoleInterval ==
    \A s \in HoleSlots(wall_graph) :
        /\ 0 <= HoleAt(wall_graph, s).min_x
        /\ HoleAt(wall_graph, s).min_x <= HoleAt(wall_graph, s).max_x
        /\ HoleAt(wall_graph, s).max_x ^ 2
              <= SqDistance2(WallP1(wall_graph, s[1]), WallP2(wall_graph, s[1]))

\* the point P = (P[1] / P[3], P[2] / P[3]) is the point q
SamePoint(P, q) == P[1] = q[1] * P[3] /\ P[2] = q[2] * P[3]
RoundTrip(line, door) ==
    \/ /\ SamePoint(line[1], <<door.x_min, door.y_min>>)
       /\ SamePoint(line[2], <<door.x_max, door.y_max>>)
    \/ /\ SamePoint(line[1], <<door.x_max, door.y_max>>)
       /\ SamePoint(line[2], <<door.x_min, door.y_min>>)

\* C12 as stated: when the openings have been assigned, hole_to_line on the
\* wall's endpoints and a Hole's [min_x, max_x] gives the two endpoints of the
\* opening the Hole was made from (stated for the walls of integer length)
C12_Original_RoundTrip ==
    (pc = "straighten" /\ iter_count = 0)
    => \A s \in HoleSlots(wall_graph) :
          IsSquare(SqDistance2(WallP1(wall_graph, s[1]), WallP2(wall_graph, s[1])))
          => RoundTrip(hole_to_line(WallP1(wall_graph, s[1]), WallP2(wall_graph, s[1]),
                                    HoleAt(wall_graph, s).min_x,
                                    HoleAt(wall_graph, s).max_x),
                       HoleAt(wall_graph, s).door)

\* the rooms (places in the room map) whose wall set holds the wall w
RoomsOf(w) ==
    {i \in DOMAIN room_description_map : InKeyList(room_description_map[i].key, w)}

\* C13 as stated: once the rooms are detected, every wall of the graph is in
\* the wall set of at most two rooms and the assertion of
\* classify_doors_and_windows does not fail
C13_Original_AtMostTwoRooms ==
    /\ pc \notin {"split", "add_walls", "detect_rooms", "api"}
         => \A w \in DOMAIN wall_graph.walls : Cardinality(RoomsOf(w)) <= 2
    /\ ~(Ran("classify_doors_and_windows") /\ error = "AssertionError")

Classified == Ran("classify_doors_and_windows") /\ error = "none"
HasEntrance ==
    \E i \in DOMAIN room_description_map :
        \E j \in DOMAIN room_description_map[i].annotations :
            room_description_map[i].annotations[j].type = "entrance"

\* C14: after classify_doors_and_windows, every hole on a wall that is in the
\* wall sets of two detected rooms has type door
C14_InternalHolesAreDoors ==
    Classified
    => \A s \in HoleSlots(wall_graph) :
          Cardinality(RoomsOf(s[1])) = 2 => HoleAt(wall_graph, s).type = "door"
\* an internal wall with a hole was moved by straightening, its room has an
\* entrance annotation, and the classification has run
C14_Witness_MovedInternalWall ==
    /\ Classified
    /\ iter_count > 0
    /\ HasEntrance
    /\ \E s \in HoleSlots(wall_graph) :
          /\ Cardinality(RoomsOf(s[1])) = 2
          /\ ~InKey(wall_graph, room_description_map[CHOOSE i \in RoomsOf(s[1]) : TRUE].key, s[1])

\* the graph with the types of its holes as Hole.__init__ leaves them
Unclassified(g) ==
    [g EXCEPT !.walls = [w \in DOMAIN @ |->
        [@[w] EXCEPT !.holes = [h \in DOMAIN @ |-> [@[h] EXCEPT !.type = "None"]]]]]
AfterInternal == ClassifyInternal(Unclassified(wall_graph), room_description_map, 1).g
AfterEntrances == ClassifyEntrances(AfterInternal, room_description_map, 1, 1)
\* the holes the entrance pass of classify_doors_and_windows selected
SelectedByEntrance ==
    {s \in HoleSlots(wall_graph) :
        HoleAt(AfterInternal, s).type = "None" /\ HoleAt(AfterEntrances, s).type = "door"}

\* C15: after classify_doors_and_windows every hole is a door or a window, and
\* a hole on a wall of fewer than two rooms that no entrance annotation
\* selected is a window
C15_ClassificationTotal ==
    Classified
    => \A s \in HoleSlots(wall_graph) :
          /\ HoleAt(wall_graph, s).type \in {"door", "window"}
          /\ (Cardinality(RoomsOf(s[1])) < 2 /\ s \notin SelectedByEntrance)
                => HoleAt(wall_graph, s).type = "window"
\* the classification has run on a plan where an entrance selected one hole
\* of an outer wall and left a second hole of an outer wall unselected
C15_Witness_SelectedAndDefault ==
    /\ Classified
    /\ \E s \in SelectedByEntrance : Cardinality(RoomsOf(s[1])) < 2
    /\ \E s \in HoleSlots(wall_graph) \ SelectedByEntrance :
          /\ Cardinality(RoomsOf(s[1])) < 2
          /\ HoleAt(wall_graph, s).type = "window"

(***************************************************************************)
(* Claims about straightening failures and splitting                       *)
(***************************************************************************)
\* a pass of the while loop of straighten_walls is entered and its scan stops
IterationRuns ==
    /\ pc = "straighten"
    /\ conf.straighten_walls.enabled
    /\ iter_count < conf.straighten_walls.max_iter
    /\ ScanStops(wall_graph, conf.straighten_walls.cutoff_gradient) # {}
FoundWall == Least(ScanStops(wall_graph, conf.straighten_walls.cutoff_gradient))
\* the Corner of the wall w that lines 335-355 move
MovedCorner(g, w, cutoff) ==
    IF Inclined(g, w, 1, cutoff)
    THEN IF WallP1(g, w)[2] < WallP2(g, w)[2] THEN g.walls[w].p1 ELSE g.walls[w].p2
    ELSE IF WallP1(g, w)[1] < WallP2(g, w)[1] THEN g.walls[w].p1 ELSE g.walls[w].p2
\* the pass raises: the slope test divides by zero, or the key of the moved
\* Corner is not in the corner index
IterationRaises ==
    /\ IterationRuns
    /\ \/ ZeroLength(wall_graph, FoundWall)
       \/ ~DictHas(wall_graph.wall_corners,
                   CornerRepr(wall_graph.corners[
                       MovedCorner(wall_graph, FoundWall,
                                   conf.straighten_walls.cutoff_gradient)].pos))

\* C16: a pass of straighten_walls that raises ends the call with
\* StraightenWallsFailed and leaves iter_count at the number of corrections
\* completed; a pass that does not raise completes one more correction; after
\* the failure no later stage runs
C16_StraightenFailureNamed ==
    [][/\ IterationRaises
           => error' = "StraightenWallsFailed" /\ pc' = "failed" /\ iter_count' = iter_count
       /\ (IterationRuns /\ ~IterationRaises)
           => error' = error /\ pc' = pc /\ iter_count' = iter_count + 1
       /\ error # "StraightenWallsFailed"]_vars
\* straighten_walls has failed on a missing key after two completed corrections
C16_Witness_FailedAfterTwo ==
    /\ error = "StraightenWallsFailed"
    /\ pc = "failed"
    /\ iter_count = 2
    /\ \A w \in DOMAIN wall_graph.walls : ~ZeroLength(wall_graph, w)

\* C17: split_source_walls ends without an exception with at most max_iter
\* more wall records than it started with, and it stops with a wall still to
\* split only when the max_iter passes are used up
C17_SplitBounded ==
    [][(pc = "split" /\ conf.split_walls.enabled)
       => /\ Len(walls') <= Len(walls) + conf.split_walls.max_iter
          /\ Len(walls') >= Len(walls)
          /\ Breaks(walls', conf.wall_join_margin) # {}
                => Len(walls') = Len(walls) + conf.split_walls.max_iter
          /\ error' = "none"
          /\ pc' = "add_walls"]_vars
\* the passes were used up with a wall left to split, and the run went on
C17_Witness_Exhausted ==
    /\ Ran("split_source_walls")
    /\ Ran("add_walls")
    /\ conf.split_walls.max_iter = 1
    /\ Breaks(walls, conf.wall_join_margin) # {}
    /\ \E i \in DOMAIN walls : walls[i].split

(***************************************************************************)
(* Claims about the metric, the tie-break and the gap                      *)
(***************************************************************************)
\* the wall the last call of add_wall inserted
WallAdded ==
    /\ pc = "api"
    /\ last_call # NoCall
    /\ Len(wall_graph.walls) = last_call.before + 1
LastWall == wall_graph.walls[Len(wall_graph.walls)]
\* the Corners that were in the index when the last call was made
IndexedBefore == {last_call.index[i].node : i \in DOMAIN last_call.index}

\* C18 as stated: an endpoint is attached to a Corner that existed before the
\* call only when that Corner lies within tolerance_distance of the endpoint,
\* measured as |dx| + |dy|
C18_Original_ManhattanMerge ==
    WallAdded
    => \A n \in IndexedBefore :
          /\ LastWall.p1 = n
                => ~RatLess(wall_graph.tolerance_distance,
                            Rat(manhattan_distance_between_sum(wall_graph.corners[n].pos,
                                                               LastWall.a1)))
          /\ LastWall.p2 = n
                => ~RatLess(wall_graph.tolerance_distance,
                            Rat(manhattan_distance_between_sum(wall_graph.corners[n].pos,
                                                               LastWall.a2)))

\* the graph as the last call of add_wall found it
GraphBefore == [wall_graph EXCEPT !.wall_corners = last_call.index]
\* the Corners of the graph g within tolerance_distance of the target,
\* measured as |dx| + |dy|
WithinManhattan(target, g) ==
    SelectSeq(g.wall_corners, LAMBDA e :
        RatLess(Rat(manhattan_distance_between_sum(g.corners[e.node].pos, target)),
                g.tolerance_distance))
ManhattanRank(target, g, cand, i) ==
    Cardinality({j \in DOMAIN cand :
        \/ manhattan_distance_between_sum(g.corners[cand[j].node].pos, target)
              < manhattan_distance_between_sum(g.corners[cand[i].node].pos, target)
        \/ /\ manhattan_distance_between_sum(g.corners[cand[j].node].pos, target)
                = manhattan_distance_between_sum(g.corners[cand[i].node].pos, target)
           /\ j < i})
ManhattanAt(target, g, cand, r) ==
    IF Len(cand) > r
    THEN cand[CHOOSE i \in DOMAIN cand : ManhattanRank(target, g, cand, i) = r].node
    ELSE None
\* the closest and the second closest Corner within tolerance_distance in the
\* Manhattan metric (None: there is none)
ManhattanClosest(target, g) ==
    <<ManhattanAt(target, g, WithinManhattan(target, g), 0),
      ManhattanAt(target, g, WithinManhattan(target, g), 1)>>
Closest1 == ManhattanClosest(last_call.p1, GraphBefore)
Closest2 == ManhattanClosest(last_call.p2, GraphBefore)
\* both endpoints of the wall just added had the same nearest Corner
TieCase ==
    /\ WallAdded
    /\ Closest1[1] # None
    /\ Closest1[1] = Closest2[1]
\* the nearest of an endpoint's closest and second closest Corner that is not
\* the Corner of the other endpoint (None: there is none)
Best(c, other) == IF c[1] # other THEN c[1] ELSE c[2]
\* the endpoint a is on the Corner n, which is Best or, when there is no Best,
\* a Corner made by the call at the endpoint's own position
TieResolved(n, a, c, other) ==
    IF Best(c, other) # None THEN n = Best(c, other)
    ELSE n \notin IndexedBefore /\ wall_graph.corners[n].pos = a

\* C19 as stated: when both endpoints of a new wall have the same nearest
\* Corner within tolerance (Manhattan metric), the two endpoints end up on
\* different Corners, each on the nearest of its own closest and second
\* closest Corner that the other endpoint does not have, and on a fresh Corner
\* at its own position only when it has no second closest Corner within
\* tolerance
C19_Original_TieBreak ==
    TieCase
    => /\ LastWall.p1 # LastWall.p2
       /\ TieResolved(LastWall.p1, LastWall.a1, Closest1, LastWall.p2)
       /\ TieResolved(LastWall.p2, LastWall.a2, Closest2, LastWall.p1)
       /\ LastWall.p1 \notin IndexedBefore => Closest1[2] = None
       /\ LastWall.p2 \notin IndexedBefore => Closest2[2] = None

\* the point e lies beside the manhattan wall record, strictly between its
\* ends and not farther than gap from its line
JunctionWithin(wall, e, gap) ==
    \/ /\ wall.y_min = wall.y_max
       /\ Min2(wall.x_min, wall.x_max) < e[1]
       /\ e[1] < Max2(wall.x_min, wall.x_max)
       /\ ~RatLess(gap, Rat(Abs(e[2] - wall.y_min)))
    \/ /\ wall.x_min = wall.x_max
       /\ Min2(wall.y_min, wall.y_max) < e[2]
       /\ e[2] < Max2(wall.y_min, wall.y_max)
       /\ ~RatLess(gap, Rat(Abs(e[1] - wall.x_min)))
RecordEnds(wall) == {<<wall.x_min, wall.y_min>>, <<wall.x_max, wall.y_max>>}

\* C20 as stated: split_source_walls breaks a wall record only when an
\* endpoint of another wall of the list lies within the configured gap
\* (parser_config.wall_join_margin) of a point strictly inside it
C20_Original_ConfiguredGap ==
    [][(pc = "split" /\ conf.split_walls.enabled)
       => \A i \in DOMAIN walls :
             walls[i] \notin Range(walls')
             => \E j \in DOMAIN walls \ {i} :
                   \E e \in RecordEnds(walls[j]) :
                       JunctionWithin(walls[i], e, conf.wall_join_margin)]_vars

(***************************************************************************)
(* Claims about the splitter                                               *)
(***************************************************************************)
\* p lies on the line of the manhattan record, strictly between its ends
StrictlyInside(wall, p) ==
    \/ /\ wall.y_min = wall.y_max
       /\ p[2] = wall.y_min
       /\ Min2(wall.x_min, wall.x_max) < p[1]
       /\ p[1] < Max2(wall.x_min, wall.x_max)
    \/ /\ wall.x_min = wall.x_max
       /\ p[1] = wall.x_min
       /\ Min2(wall.y_min, wall.y_max) < p[2]
       /\ p[2] < Max2(wall.y_min, wall.y_max)
\* seg1 and seg2 are the two halves of the parent record at seg1's end
ChildrenOf(parent, seg1, seg2) ==
    /\ IsManhattan(parent)
    /\ <<seg1.x_min, seg1.y_min>> = <<parent.x_min, parent.y_min>>
    /\ <<seg2.x_max, seg2.y_max>> = <<parent.x_max, parent.y_max>>
    /\ <<seg1.x_max, seg1.y_max>> = <<seg2.x_min, seg2.y_min>>
    /\ StrictlyInside(parent, <<seg1.x_max, seg1.y_max>>)
    /\ seg1.left_room_type = parent.left_room_type
    /\ seg2.left_room_type = parent.left_room_type
    /\ seg1.right_room_type = parent.right_room_type
    /\ seg2.right_room_type = parent.right_room_type
\* the list after is the list before with record i deleted and its two
\* children appended
SplitAt(before, after, i) ==
    /\ Len(after) = Len(before) + 1
    /\ SubSeq(after, 1, Len(before) - 1) = RemoveAt(before, i)
    /\ ChildrenOf(before[i], after[Len(before)], after[Len(before) + 1])

\* C21 as stated: a pass of split_source_walls that splits (max_iter 1: the
\* call is one pass) replaces one manhattan record by its two halves at a point
\* strictly inside it, both with the parent's room types, and leaves the
\* others as they are
C21_Original_SplitInTwo ==
    [][(pc = "split" /\ conf.split_walls.enabled /\ conf.split_walls.max_iter = 1
           /\ walls' # walls)
       => \E i \in DOMAIN walls : SplitAt(walls, walls', i)]_vars

\* find_connections reports a junction inside one of the records i, j of ws
JunctionReported(ws, i, j, gap) ==
    \/ find_connections(RecordLine(ws[i]), RecordLine(ws[j]), gap).r[1] = 2
    \/ find_connections(RecordLine(ws[i]), RecordLine(ws[j]), gap).r[2] = 2

\* C22: when split_source_walls stops with passes left (it made fewer than
\* max_iter - 1 splits before its last scan), find_connections reports no
\* junction inside a record for any two manhattan records of the final list
C22_SplitFixedPoint ==
    [][(pc = "split" /\ conf.split_walls.enabled
           /\ Len(walls') + 1 < Len(walls) + conf.split_walls.max_iter)
       => \A i \in DOMAIN walls', j \in DOMAIN walls' :
             (i # j /\ IsManhattan(walls'[i]) /\ IsManhattan(walls'[j]))
             => ~JunctionReported(walls', i, j, conf.wall_join_margin)]_vars
\* two splits were made, each after a scan of its own, and passes were left
C22_Witness_TwoSplits ==
    /\ Ran("split_source_walls")
    /\ conf.split_walls.max_iter = SplitMaxIter
    /\ Cardinality({i \in DOMAIN walls : walls[i].split}) >= 4

(***************************************************************************)
(* Claims about face tracing                                               *)
(***************************************************************************)
\* w is reached by a counter-clockwise turn of less than 180 degrees from u
\* (the y axis pointing down, as find_angle negates the angle for y > 0)
TurnsLeft(u, w) == u[2] * w[1] - u[1] * w[2] > 0
OppositeDirection(u, w) ==
    u[1] * w[2] - u[2] * w[1] = 0 /\ u[1] * w[1] + u[2] * w[2] < 0

\* the counter-clockwise angle from u to w is strictly less than the one from
\* u to r: w lies strictly inside the sector swept from u to r
StrictlyBefore(u, w, r) ==
    IF SameDirection(u, r) THEN FALSE
    ELSE IF SameDirection(u, w) THEN TRUE
    ELSE IF TurnsLeft(u, r) THEN TurnsLeft(u, w) /\ TurnsLeft(w, r)
    ELSE IF OppositeDirection(u, r) THEN TurnsLeft(u, w)
    ELSE \/ TurnsLeft(u, w)
         \/ OppositeDirection(u, w)
         \/ TurnsLeft(w, u) /\ TurnsLeft(w, r)

\* wall r is a tightest turn at Corner c for the incoming wall in_wall
TightestTurn(g, c, in_wall, r) ==
    /\ r # in_wall
    /\ \E i \in DOMAIN g.corners[c].adj : g.corners[c].adj[i] = r
    /\ \A i \in DOMAIN g.corners[c].adj :
          g.corners[c].adj[i] # in_wall
             => ~StrictlyBefore(Leaving(g, c, in_wall),
                                Leaving(g, c, g.corners[c].adj[i]),
                                Leaving(g, c, r))

DeadEnds(g) == {c \in DOMAIN g.corners : Len(g.corners[c].adj) = 1}

\* C24: find_room returns without raising after at most 500 passes: a closed
\* trace has at most 500 walls, a trace that does not close is returned as it
\* stands after the 500th pass, 501 walls of the graph.
C24_FindRoomTerminates ==
    pc = "api_done"
       => /\ error = "none"
          /\ Len(room.walls) >= 1
          /\ Len(room.walls) <= FindRoomMaxIter + 1
          /\ \A k \in DOMAIN room.walls : room.walls[k] \in DOMAIN wall_graph.walls
          /\ room.closed => Len(room.walls) <= FindRoomMaxIter
          /\ ~room.closed => Len(room.walls) = FindRoomMaxIter + 1

\* C24 witness: a trace that did not close, in a graph of three or more
\* walls where the walk turns back at a dead end
C24_Witness_Partial ==
    /\ pc = "api_done"
    /\ ~room.closed
    /\ Len(room.walls) = FindRoomMaxIter + 1
    /\ Len(wall_graph.walls) >= 3
    /\ DeadEnds(wall_graph) # {}
    /\ \E k \in DOMAIN room.walls : room.walls[k] # room.walls[1]

(***************************************************************************)
(* Claims about straightening                                              *)
(***************************************************************************)
\* a pass of straighten_walls corrects a near-vertical wall:
\* 0 < |dx| / length < cutoff_gradient holds of the wall the scan stops at
XCorrectionRuns ==
    /\ IterationRuns
    /\ ~ZeroLength(wall_graph, FoundWall)
    /\ Inclined(wall_graph, FoundWall, 1, conf.straighten_walls.cutoff_gradient)

\* the pass moves the endpoint m of the wall w, and nothing else: the x of m
\* becomes the x of the other endpoint o, its y stays
MovesOnlyX(w, m, o) ==
    /\ {m, o} = {wall_graph.walls[w].p1, wall_graph.walls[w].p2}
    /\ DOMAIN wall_graph'.corners = DOMAIN wall_graph.corners
    /\ wall_graph'.corners[m].pos
          = <<wall_graph.corners[o].pos[1], wall_graph.corners[m].pos[2]>>
    /\ \A c \in DOMAIN wall_graph.corners :
          c # m => wall_graph'.corners[c].pos = wall_graph.corners[c].pos

\* C25 as stated: the correction of a near-vertical wall moves the endpoint
\* with the greater y to the x of the other endpoint and moves nothing else.
C25_Original_MovesGreaterY ==
    [][XCorrectionRuns
       => \E m \in DOMAIN wall_graph.corners, o \in DOMAIN wall_graph.corners :
             /\ wall_graph.corners[m].pos[2] > wall_graph.corners[o].pos[2]
             /\ MovesOnlyX(FoundWall, m, o)]_vars

\* C25 amended: the correction of a near-vertical wall moves the endpoint
\* with the smaller y (p2 when the two y are equal) to the x of the other
\* endpoint, keeps its y, and leaves every other Corner where it is.
C25_MovesSmallerY ==
    [][XCorrectionRuns
       => \E m \in DOMAIN wall_graph.corners, o \in DOMAIN wall_graph.corners :
             /\ wall_graph.corners[m].pos[2] <= wall_graph.corners[o].pos[2]
             /\ wall_graph.corners[m].pos[2] = wall_graph.corners[o].pos[2]
                   => m = wall_graph.walls[FoundWall].p2
             /\ MovesOnlyX(FoundWall, m, o)]_vars

\* the end points of the wall records
RecordPoints ==
    {<<walls[i].x_min, walls[i].y_min>> : i \in DOMAIN walls}
       \cup {<<walls[i].x_max, walls[i].y_max>> : i \in DOMAIN walls}

\* C25 witness: a correction has made a wall vertical by moving its upper
\* endpoint (the smaller y) to a position that is no end of a wall record
C25_Witness_UpperEndMoved ==
    /\ Ran("straighten_walls")
    /\ iter_count >= 1
    /\ \E w \in DOMAIN wall_graph.walls :
          /\ WallP1(wall_graph, w)[1] = WallP2(wall_graph, w)[1]
          /\ WallP1(wall_graph, w)[2] < WallP2(wall_graph, w)[2]
          /\ WallP1(wall_graph, w) \notin RecordPoints
          /\ WallP2(wall_graph, w) \in RecordPoints

\* the Corners that are an endpoint of some wall
EndpointCorners(g) ==
    {g.walls[w].p1 : w \in DOMAIN g.walls} \cup {g.walls[w].p2 : w \in DOMAIN g.walls}

\* Corner c is stored in the corner index under the key of its position
Indexed(g, c) ==
    \E i \in DOMAIN g.wall_corners :
        /\ g.wall_corners[i].key = CornerRepr(g.corners[c].pos)
        /\ g.wall_corners[i].node = c

\* C26 as stated: after every correction of straighten_walls every Corner
\* that is an endpoint of a wall is in wall_corners under the key of its
\* current position, and no entry is stored under a key other than the
\* position of its Corner.
C26_Original_IndexConsistent ==
    (pc = "straighten" /\ iter_count >= 1)
       => /\ \A c \in EndpointCorners(wall_graph) : Indexed(wall_graph, c)
          /\ \A i \in DOMAIN wall_graph.wall_corners :
                wall_graph.wall_corners[i].key
                   = CornerRepr(wall_graph.corners[wall_graph.wall_corners[i].node].pos)

\* C27: straighten_walls completes at most max_iter corrections, and when
\* max_iter corrections are done and a wall still offends it returns without
\* an exception, leaving the graph as it is; the run goes on.
C27_StraightenBounded ==
    [][/\ pc = "straighten" => iter_count <= conf.straighten_walls.max_iter
       /\ (pc = "straighten" /\ pc' = "straighten") => iter_count' = iter_count + 1
       /\ (/\ pc = "straighten"
           /\ conf.straighten_walls.enabled
           /\ iter_count = conf.straighten_walls.max_iter
           /\ ScanStops(wall_graph, conf.straighten_walls.cutoff_gradient) # {})
          => /\ pc' = "annotations"
             /\ error' = "none"
             /\ wall_graph' = wall_graph]_vars

\* C27 witness: straighten_walls has returned after max_iter >= 2 corrections
\* with a wall still inclined, and the run went on
C27_Witness_Exhausted ==
    /\ Ran("straighten_walls")
    /\ pc = "annotations"
    /\ error = "none"
    /\ conf.straighten_walls.max_iter >= 2
    /\ iter_count = conf.straighten_walls.max_iter
    /\ ScanStops(wall_graph, conf.straighten_walls.cutoff_gradient) # {}

(***************************************************************************)
(* Claims about the false-room test                                        *)
(***************************************************************************)
\* the polygon of room A of the room map, and twice its area
RoomPolygon(A) == get_polyline(wall_graph, room_description_map[A].walls)
RoomArea2(A) == PolygonArea2(RoomPolygon(A))

\* the other rooms whose polygon meets that of A in a positive area
Overlapping(A) ==
    {B \in DOMAIN room_description_map \ {A} :
        /\ Len(RoomPolygon(B)) >= 3
        /\ IntersectionArea2(RoomPolygon(A), RoomPolygon(B)) > 0}

RECURSIVE SumOfIntersections2(_, _)
SumOfIntersections2(A, rooms) ==
    IF rooms = {} THEN 0
    ELSE IntersectionArea2(RoomPolygon(A), RoomPolygon(CHOOSE B \in rooms : TRUE))
         + SumOfIntersections2(A, rooms \ {CHOOSE B \in rooms : TRUE})
RECURSIVE SumOfAreas2(_)
SumOfAreas2(rooms) ==
    IF rooms = {} THEN 0
    ELSE RoomArea2(CHOOSE B \in rooms : TRUE)
         + SumOfAreas2(rooms \ {CHOOSE B \in rooms : TRUE})

\* |total - area(A)| < threshold * area(A), on doubled areas
DiffersByLess(total2, A) ==
    Abs(total2 - RoomArea2(A)) * conf.eliminate_false_rooms.threshold[2]
        < RoomArea2(A) * conf.eliminate_false_rooms.threshold[1]

EliminationRuns == pc = "eliminate" /\ conf.eliminate_false_rooms.enabled
\* room A of the room map is not in the room map of the next state
DeletedNext(A) ==
    ~\E j \in DOMAIN room_description_map' :
        room_description_map'[j] = room_description_map[A]

\* C28 as stated: _eliminate_false_rooms deletes room A exactly when the sum
\* of the areas of A's intersections with the other rooms that overlap it
\* differs from the area of A by less than threshold times the area of A.
C28_Original_IntersectionAreas ==
    [][EliminationRuns
       => \A A \in DOMAIN room_description_map :
             DeletedNext(A)
                <=> /\ Len(RoomPolygon(A)) >= 3
                    /\ DiffersByLess(SumOfIntersections2(A, Overlapping(A)), A)]_vars

\* C28 amended: _eliminate_false_rooms deletes room A exactly when the sum of
\* the own areas of the other rooms that overlap A in a positive area differs
\* from the area of A by less than threshold times the area of A, every
\* decision being taken on the room map as it was before the deletions.
C28_OwnAreas ==
    [][EliminationRuns
       => \A A \in DOMAIN room_description_map :
             DeletedNext(A)
                <=> /\ Len(RoomPolygon(A)) >= 3
                    /\ DiffersByLess(SumOfAreas2(Overlapping(A)), A)]_vars

\* C28 witness: the test has run on three rooms and deleted more than the
\* enclosing room: a room whose neighbour is small was deleted with it
C28_Witness_TwoDeleted ==
    /\ Ran("_eliminate_false_rooms")
    /\ Len(room_description_map) = 1
    /\ conf.eliminate_false_rooms.threshold = <<9, 10>>

(***************************************************************************)
(* Claims about openings and entrances                                     *)
(***************************************************************************)
\* the walls that pass line_contains_check for the opening record door
PassingWalls(door) ==
    {w \in DOMAIN wall_graph.walls :
        line_contains_check(wall_graph, w, door,
                            conf.max_door_perpendicular_offset).contains}
\* the perpendicular offset line_contains_check reports for wall w
Offset(w, door) ==
    line_contains_check(wall_graph, w, door, conf.max_door_perpendicular_offset).pd
\* the Holes of the next state that were made from the opening record door
HolesNextOf(door) ==
    {s \in (DOMAIN wall_graph'.walls) \X (1..Len(openings)) :
        /\ s[2] <= Len(wall_graph'.walls[s[1]].holes)
        /\ wall_graph'.walls[s[1]].holes[s[2]].door = door}

\* C29: the add-doors step of generate_wall_graph makes at most one Hole of
\* every opening, exactly one when some wall passes line_contains_check for
\* it, and puts it on a passing wall of the least perpendicular offset.
C29_GreedyAssignment ==
    [][pc = "add_doors"
       => \A i \in DOMAIN openings :
             /\ Cardinality(HolesNextOf(openings[i])) <= 1
             /\ HolesNextOf(openings[i]) # {} <=> PassingWalls(openings[i]) # {}
             /\ \A s \in HolesNextOf(openings[i]) :
                   /\ s[1] \in PassingWalls(openings[i])
                   /\ \A w \in PassingWalls(openings[i]) :
                         ~PdLess(Offset(w, openings[i]), Offset(s[1], openings[i]))]_vars

\* C29 witness: doors were added, and the Hole of the corner opening is on
\* the internal wall, the later and the nearer of the two walls that pass
C29_Witness_NearerWall ==
    /\ Ran("add_doors")
    /\ openings = <<RectCornerOpening>>
    /\ \E w \in DOMAIN wall_graph.walls :
          /\ Len(wall_graph.walls[w].holes) = 1
          /\ WallP1(wall_graph, w)[1] = WallP2(wall_graph, w)[1]

\* the entrance annotations as classify_doors_and_windows meets them: <<i, j>>
\* is annotation j of room i of the room map
EntranceSteps ==
    {c \in (DOMAIN room_description_map) \X (1..Len(raw_room_annotations)) :
        /\ c[2] \in DOMAIN room_description_map[c[1]].annotations
        /\ room_description_map[c[1]].annotations[c[2]].type = "entrance"}
\* the room map up to annotation j of room i
MapUpTo(i, j) ==
    [k \in 1..i |->
        IF k = i
        THEN [room_description_map[k] EXCEPT !.annotations = [n \in 1..j |-> @[n]]]
        ELSE room_description_map[k]]
\* the graph when annotation j of room i is about to be processed, and when it
\* has been processed
BeforeStep(c) == ClassifyEntrances(AfterInternal, MapUpTo(c[1], c[2] - 1), 1, 1)
AfterStep(c) == ClassifyEntrances(AfterInternal, MapUpTo(c[1], c[2]), 1, 1)

\* the holes on the walls of room i that are unresolved in the graph g
UnresolvedOfRoom(g, i) ==
    {s \in HoleSlots(g) :
        /\ \E k \in DOMAIN room_description_map[i].walls :
              room_description_map[i].walls[k] = s[1]
        /\ HoleAt(g, s).type = "None"}

\* the hole s in world coordinates
HoleLine(s) ==
    hole_to_line(WallP1(wall_graph, s[1]), WallP2(wall_graph, s[1]),
                 HoleAt(wall_graph, s).min_x, HoleAt(wall_graph, s).max_x)
\* the gap between the intervals [a1, a2] and [b1, b2] (in either order)
Gap(a1, a2, b1, b2) ==
    Max2(0, Max2(Min2(a1, a2) - Max2(b1, b2), Min2(b1, b2) - Max2(a1, a2)))
\* the distance, squared, from the rectangle of annotation a to the segment
\* line, for a segment parallel to an axis; the points of the line are
\* (P[1] / P[3], P[2] / P[3])
RectSegmentDistance2(a, line) ==
    <<Gap(line[1][1], line[2][1], a.p1[1] * line[1][3], a.p2[1] * line[1][3]) ^ 2
        + Gap(line[1][2], line[2][2], a.p1[2] * line[1][3], a.p2[2] * line[1][3]) ^ 2,
      line[1][3] ^ 2>>
EntranceDistance(c, s) ==
    RectSegmentDistance2(room_description_map[c[1]].annotations[c[2]], HoleLine(s))

\* C30 as stated: for every room and every entrance annotation of the room,
\* if the room's walls carry a hole that is unresolved when the annotation
\* is processed, exactly one such hole becomes a door, one at the least
\* distance from the annotation's rectangle among the room's unresolved holes;
\* a hole that is a door stays a door.
C30_Original_NearestHole ==
    Classified
       => \A c \in EntranceSteps :
             /\ UnresolvedOfRoom(BeforeStep(c), c[1]) # {}
                   => \E s \in UnresolvedOfRoom(BeforeStep(c), c[1]) :
                         /\ HoleAt(AfterStep(c), s).type = "door"
                         /\ \A t \in UnresolvedOfRoom(BeforeStep(c), c[1]) :
                               /\ t # s => HoleAt(AfterStep(c), t).type = "None"
                               /\ ~RatLess(EntranceDistance(c, t), EntranceDistance(c, s))
             /\ \A s \in HoleSlots(wall_graph) :
                   HoleAt(BeforeStep(c), s).type = "door"
                      => HoleAt(AfterStep(c), s).type = "door"

====
